---- MODULE Spec2Model ----
(***************************************************************************)
(* Model of the document ingestion pipeline of boann-security-risk-agent:  *)
(*   - DocumentProcessorManager.chunk_text (src/shared/document_processor) *)
(*   - DocumentProcessorManager.process_document                           *)
(*   - the POST /ingest handler (src/api/admin_api.py)                     *)
(* Strings are sequences of one-character strings, so that len(), slices,  *)
(* strip(), split() and the regular expressions are computed, not assumed. *)
(***************************************************************************)
EXTENDS Integers, Sequences, FiniteSets, TLC

\* ------------------------------------------------------------------ bounds
MaxTextLen == 5
MaxChunkSize == 3
MaxOverlap == 3

\* ------------------------------------------------------------- characters
\* Characters for which str.isspace() holds (what \s, strip() and split() use).
Whitespace == {" ", "\t", "\n"}
\* The sentence terminators of the look-behind (?<=[.!?]).
Terminators == {".", "!", "?"}
\* The characters texts are drawn from.
Alphabet == {"a", ".", " ", "\t"}

Texts == UNION {[1..n -> Alphabet] : n \in 0..MaxTextLen}

\* ------------------------------------------------------- string primitives
\* s[-n:] for n > 0 (the whole string when n >= len(s))
Tail_n(s, n) == IF n >= Len(s) THEN s ELSE SubSeq(s, Len(s) - n + 1, Len(s))

RECURSIVE lstrip(_)
lstrip(s) == IF s # <<>> /\ Head(s) \in Whitespace THEN lstrip(Tail(s)) ELSE s

RECURSIVE rstrip(_)
rstrip(s) ==
  IF s # <<>> /\ s[Len(s)] \in Whitespace THEN rstrip(SubSeq(s, 1, Len(s) - 1)) ELSE s

\* str.strip()
strip(s) == rstrip(lstrip(s))

\* re.sub(r"\s+", " ", s): every maximal whitespace run becomes one space
RECURSIVE sub_ws(_)
sub_ws(s) ==
  IF s = <<>> THEN <<>>
  ELSE IF Head(s) \in Whitespace THEN <<" ">> \o sub_ws(lstrip(s))
  ELSE <<Head(s)>> \o sub_ws(Tail(s))

\* str.split(): the maximal whitespace-free runs, in order
RECURSIVE split_acc(_, _)
split_acc(s, word) ==
  IF s = <<>> THEN (IF word = <<>> THEN <<>> ELSE <<word>>)
  ELSE IF Head(s) \in Whitespace
       THEN (IF word = <<>> THEN <<>> ELSE <<word>>) \o split_acc(Tail(s), <<>>)
       ELSE split_acc(Tail(s), Append(word, Head(s)))

split(s) == split_acc(s, <<>>)

\* re.split(r"(?<=[.!?])\s+", s): a separator is a maximal whitespace run that
\* starts right after a terminator; `piece` is the text since the last separator.
RECURSIVE split_sentences_acc(_, _)
split_sentences_acc(s, piece) ==
  IF s = <<>> THEN <<piece>>
  ELSE IF Head(s) \in Whitespace /\ piece # <<>> /\ piece[Len(piece)] \in Terminators
       THEN <<piece>> \o split_sentences_acc(lstrip(s), <<>>)
       ELSE split_sentences_acc(Tail(s), Append(piece, Head(s)))

split_sentences(s) == split_sentences_acc(s, <<>>)

\* " ".join(parts)
RECURSIVE join(_)
join(parts) ==
  IF parts = <<>> THEN <<>>
  ELSE IF Len(parts) = 1 THEN parts[1]
  ELSE parts[1] \o <<" ">> \o join(Tail(parts))

\* ------------------------------------------------------------- chunk_text
\* clean_text without the strip(): a leading or trailing run becomes a space.
clean_text_nostrip(text) == sub_ws(text)

\* `text = re.sub(r"\s+", " ", text.strip())`
clean_text(text) == sub_ws(strip(text))

\* new_chunk_seed carrying the head of the closed buffer instead of its tail.
new_chunk_seed_head(current_chunk, sentence, overlap) ==
  IF overlap > 0 /\ Len(current_chunk) > overlap
  THEN SubSeq(current_chunk, 1, overlap) \o <<" ">> \o sentence
  ELSE sentence

\* new_chunk_seed without the `overlap > 0` guard: current_chunk[-0:] is the
\* whole buffer.
new_chunk_seed_noguard(current_chunk, sentence, overlap) ==
  IF Len(current_chunk) > overlap
  THEN (IF overlap = 0 THEN current_chunk ELSE Tail_n(current_chunk, overlap))
       \o <<" ">> \o sentence
  ELSE sentence

\* The seed of the buffer that follows a closed one (lines 258-261).
new_chunk_seed(current_chunk, sentence, overlap) ==
  IF overlap > 0 /\ Len(current_chunk) > overlap
  THEN Tail_n(current_chunk, overlap) \o <<" ">> \o sentence
  ELSE sentence

\* pack_sentences without the final flush of lines 268-270.
RECURSIVE pack_sentences_noflush(_, _, _, _, _)
pack_sentences_noflush(sentences, chunks_acc, current_chunk, size, overlap) ==
  IF sentences = <<>>
  THEN chunks_acc
  ELSE LET sentence == Head(sentences) IN
       IF Len(current_chunk) + Len(sentence) > size /\ current_chunk # <<>>
       THEN pack_sentences_noflush(Tail(sentences),
                           Append(chunks_acc, strip(current_chunk)),
                           new_chunk_seed(current_chunk, sentence, overlap),
                           size, overlap)
       ELSE pack_sentences_noflush(Tail(sentences), chunks_acc,
                           IF current_chunk # <<>>
                           THEN current_chunk \o <<" ">> \o sentence
                           ELSE sentence,
                           size, overlap)

\* The `for sentence in sentences` loop and the final flush (lines 251-270).
RECURSIVE pack_sentences(_, _, _, _, _)
pack_sentences(sentences, chunks_acc, current_chunk, size, overlap) ==
  IF sentences = <<>>
  THEN IF strip(current_chunk) # <<>>
       THEN Append(chunks_acc, strip(current_chunk))
       ELSE chunks_acc
  ELSE LET sentence == Head(sentences) IN
       IF Len(current_chunk) + Len(sentence) > size /\ current_chunk # <<>>
       THEN pack_sentences(Tail(sentences),
                           Append(chunks_acc, strip(current_chunk)),
                           new_chunk_seed(current_chunk, sentence, overlap),
                           size, overlap)
       ELSE pack_sentences(Tail(sentences), chunks_acc,
                           IF current_chunk # <<>>
                           THEN current_chunk \o <<" ">> \o sentence
                           ELSE sentence,
                           size, overlap)

\* The chunk list before the long-chunk pass (lines 245-270); the two early
\* returns of lines 236-243 leave it empty.
sentence_chunks(text, size, overlap) ==
  IF text = <<>> \/ strip(text) = <<>> THEN <<>>
  ELSE IF Len(clean_text(text)) <= size THEN <<>>
  ELSE pack_sentences(split_sentences(clean_text(text)), <<>>, <<>>, size, overlap)

\* pack_words that forgets the joining space in its size test.
RECURSIVE pack_words_nosep(_, _, _)
pack_words_nosep(words, current_sub_chunk, size) ==
  IF words = <<>>
  THEN IF current_sub_chunk # <<>> THEN <<current_sub_chunk>> ELSE <<>>
  ELSE LET word == Head(words) IN
       IF Len(current_sub_chunk) + Len(word) <= size
       THEN pack_words_nosep(Tail(words),
                       IF current_sub_chunk # <<>>
                       THEN current_sub_chunk \o <<" ">> \o word
                       ELSE word,
                       size)
       ELSE (IF current_sub_chunk # <<>> THEN <<current_sub_chunk>> ELSE <<>>)
            \o pack_words_nosep(Tail(words), word, size)

\* The `for word in words` loop with its trailing flush (lines 279-293).
RECURSIVE pack_words(_, _, _)
pack_words(words, current_sub_chunk, size) ==
  IF words = <<>>
  THEN IF current_sub_chunk # <<>> THEN <<current_sub_chunk>> ELSE <<>>
  ELSE LET word == Head(words) IN
       IF Len(current_sub_chunk) + Len(word) + 1 <= size
       THEN pack_words(Tail(words),
                       IF current_sub_chunk # <<>>
                       THEN current_sub_chunk \o <<" ">> \o word
                       ELSE word,
                       size)
       ELSE (IF current_sub_chunk # <<>> THEN <<current_sub_chunk>> ELSE <<>>)
            \o pack_words(Tail(words), word, size)

\* The long-chunk pass cutting an over-long chunk at chunk_size.
RECURSIVE split_long_chunks_truncate(_, _)
split_long_chunks_truncate(chunk_list, size) ==
  IF chunk_list = <<>> THEN <<>>
  ELSE LET chunk == Head(chunk_list) IN
       (IF Len(chunk) <= size
        THEN <<chunk>>
        ELSE <<SubSeq(chunk, 1, size)>>)
       \o split_long_chunks_truncate(Tail(chunk_list), size)

\* The long-chunk pass over the sentence-phase chunks (lines 272-295).
RECURSIVE split_long_chunks(_, _)
split_long_chunks(chunk_list, size) ==
  IF chunk_list = <<>> THEN <<>>
  ELSE LET chunk == Head(chunk_list) IN
       (IF Len(chunk) <= size
        THEN <<chunk>>
        ELSE pack_words(split(chunk), <<>>, size))
       \o split_long_chunks(Tail(chunk_list), size)

\* DocumentProcessorManager.chunk_text, with self.chunk_overlap as `overlap`.
chunk_text(text, size, overlap) ==
  IF text = <<>> \/ strip(text) = <<>> THEN <<>>
  ELSE IF Len(clean_text(text)) <= size THEN <<clean_text(text)>>
  ELSE split_long_chunks(sentence_chunks(text, size, overlap), size)

\* ------------------------------------------------------------ file names
\* A file name or path is a string like any other: a sequence of characters
\* (the random part of a temporary name is an opaque piece and a number).

\* `needle in s` for strings
RECURSIVE Contains(_, _)
Contains(s, needle) ==
  IF Len(needle) > Len(s) THEN FALSE
  ELSE IF SubSeq(s, 1, Len(needle)) = needle THEN TRUE
  ELSE Contains(Tail(s), needle)

\* str.rfind("."): the 1-based position of the last dot, 0 when there is none
RECURSIVE rfind_dot(_)
rfind_dot(s) ==
  IF s = <<>> THEN 0
  ELSE IF s[Len(s)] = "." THEN Len(s)
  ELSE rfind_dot(SubSeq(s, 1, Len(s) - 1))

\* pathlib's PurePath.suffix of a final path component `name`
suffix(name) ==
  LET i == rfind_dot(name) IN
  IF 1 < i /\ i < Len(name) THEN SubSeq(name, i, Len(name)) ELSE <<>>

\* str.lower() on the letters that the names and settings here use
lower_char(c) ==
  CASE c = "P" -> "p" [] c = "D" -> "d" [] c = "F" -> "f"
    [] c = "G" -> "g" [] c = "V" -> "v" [] c = "A" -> "a" [] c = "I" -> "i"
    [] c = "J" -> "j" [] c = "S" -> "s" [] c = "O" -> "o" [] c = "N" -> "n"
    [] c = "T" -> "t" [] c = "R" -> "r" [] c = "U" -> "u" [] c = "E" -> "e"
    [] OTHER -> c

lower(s) == [i \in 1..Len(s) |-> lower_char(s[i])]

\* The name tempfile.NamedTemporaryFile(delete=False, suffix=f"_{filename}")
\* gives the temporary file (admin_api.py lines 118-123).
tmp_name(filename, n) == <<"tmp", ToString(n), "_">> \o filename

\* tmp_file.name: the path of the n-th temporary file of the request
tmp_path(filename, n) == <<"/", "t", "m", "p", "/">> \o tmp_name(filename, n)

\* -------------------------------------------------------------- metadata
\* A metadata dict is a function from its keys; {**m, **o} is Merge(m, o).
Merge(m, o) ==
  [k \in (DOMAIN m) \cup (DOMAIN o) |-> IF k \in DOMAIN o THEN o[k] ELSE m[k]]

\* dict.get(key, default)
Get(m, key, default) == IF key \in DOMAIN m THEN m[key] ELSE default

\* -------------------------------------------------------- JSONProcessor
\* A parsed JSON value: t is "dict", "list" or "leaf"; a leaf carries str(value)
\* in s, a dict its (key, value) items in declaration order, a list its items.
JLeaf(s) == [t |-> "leaf", s |-> s, items |-> <<>>]
JDict(items) == [t |-> "dict", s |-> <<>>, items |-> items]
JList(items) == [t |-> "list", s |-> <<>>, items |-> items]

\* isinstance(value, (dict, list))
is_container(v) == v.t \in {"dict", "list"}

\* extract_text_recursive (lines 135-149): the lines appended to text_parts
RECURSIVE extract_text_recursive(_, _)
RECURSIVE dict_items_lines(_, _)
RECURSIVE list_items_lines(_, _, _)
dict_items_lines(items, prefix) ==
  IF items = <<>> THEN <<>>
  ELSE LET key == Head(items)[1]
           value == Head(items)[2]
       IN (IF is_container(value)
           THEN extract_text_recursive(value, prefix \o key \o <<":", " ">>)
           ELSE <<prefix \o key \o <<":", " ">> \o value.s>>)
          \o dict_items_lines(Tail(items), prefix)

list_items_lines(items, i, prefix) ==
  IF items = <<>> THEN <<>>
  ELSE LET item == Head(items) IN
       (IF is_container(item)
        THEN extract_text_recursive(item, prefix \o <<"[", ToString(i), "]", " ">>)
        ELSE <<prefix \o <<"[", ToString(i), "]", " ">> \o item.s>>)
       \o list_items_lines(Tail(items), i + 1, prefix)

\* extract_text_recursive numbering the items of a list from 1.
extract_text_recursive_one_based(obj, prefix) ==
  IF obj.t = "dict" THEN dict_items_lines(obj.items, prefix)
  ELSE IF obj.t = "list" THEN list_items_lines(obj.items, 1, prefix)
  ELSE <<prefix \o obj.s>>

extract_text_recursive(obj, prefix) ==
  IF obj.t = "dict" THEN dict_items_lines(obj.items, prefix)
  ELSE IF obj.t = "list" THEN list_items_lines(obj.items, 0, prefix)
  ELSE <<prefix \o obj.s>>

\* "\n".join(text_parts)
RECURSIVE join_lines(_)
join_lines(parts) ==
  IF parts = <<>> THEN <<>>
  ELSE IF Len(parts) = 1 THEN parts[1]
  ELSE parts[1] \o <<"\n">> \o join_lines(Tail(parts))

\* JSONProcessor.extract_text: json.load raises on a file that is not JSON
\* and the handler of line 154 returns "".
json_extract_text(body) ==
  IF ~body.is_json THEN <<>>
  ELSE join_lines(extract_text_recursive(body.json, <<>>))

\* The well-known fields looked for in a root object (lines 176-184), each
\* with the metadata key it is stored under.
JsonCommonFields ==
  << <<"title", <<"t","i","t","l","e">> >>,
     <<"name", <<"n","a","m","e">> >>,
     <<"description", <<"d","e","s","c","r","i","p","t","i","o","n">> >>,
     <<"summary", <<"s","u","m","m","a","r","y">> >>,
     <<"version", <<"v","e","r","s","i","o","n">> >>,
     <<"date", <<"d","a","t","e">> >>,
     <<"author", <<"a","u","t","h","o","r">> >> >>

\* list(data.keys())
json_keys(items) == [i \in 1..Len(items) |-> items[i][1]]

\* `field in data`
json_has(items, key) == \E i \in 1..Len(items) : items[i][1] = key

\* data[field] for a key the dict has (the keys of a dict are distinct)
json_lookup(items, key) ==
  items[CHOOSE i \in 1..Len(items) : items[i][1] = key][2]

\* JSONProcessor.extract_metadata (lines 158-195)
json_extract_metadata(body) ==
  IF ~body.is_json THEN [k \in {} |-> <<>>]
  ELSE LET base == [file_extension |-> <<".","j","s","o","n">>,
                    processing_method |-> <<"json_parser">>,
                    processor |-> <<"JSONProcessor">>]
           data == body.json
       IN
       IF data.t = "dict"
       THEN LET present == {i \in 1..Len(JsonCommonFields) :
                              json_has(data.items, JsonCommonFields[i][2])}
                copied == [k \in {JsonCommonFields[i][1] : i \in present} |->
                             json_lookup(data.items,
                               JsonCommonFields[CHOOSE i \in present :
                                                  JsonCommonFields[i][1] = k][2])]
            IN Merge(Merge(base, [json_keys |-> json_keys(data.items),
                                  json_structure |-> <<"object">>]),
                     copied)
       ELSE IF data.t = "list"
       THEN Merge(base, [json_structure |-> <<"array">>,
                         json_array_length |-> Len(data.items)])
       ELSE base

\* --------------------------------------------------------- PDFProcessor
\* The document-information keys copied when present and truthy (lines 87-100).
PdfInfoKeys ==
  {"title", "author", "subject", "creator", "producer",
   "creation_date", "modification_date"}

\* text += page.extract_text() + "\n" over the pages (lines 63-64)
RECURSIVE concat_pages(_)
concat_pages(pages) ==
  IF pages = <<>> THEN <<>>
  ELSE Head(pages) \o <<"\n">> \o concat_pages(Tail(pages))

\* PDFProcessor.extract_text for an available pypdf: a file pypdf cannot
\* read, or a page whose extract_text raises, raises inside the try and ""
\* is returned (lines 59-68).
pdf_extract_text(body) ==
  IF ~body.is_pdf \/ body.text_raises THEN <<>>
  ELSE strip(concat_pages(body.pages))

\* PDFProcessor._basic_metadata
basic_metadata ==
  [file_extension |-> <<".","p","d","f">>,
   processing_method |-> <<"basic">>,
   processor |-> <<"PDFProcessor">>]

\* PDFProcessor.extract_metadata (lines 70-108)
pdf_extract_metadata(body, pypdf_available) ==
  IF ~pypdf_available \/ ~body.is_pdf \/ body.info_raises THEN basic_metadata
  ELSE LET truthy == {k \in (DOMAIN body.info) \cap PdfInfoKeys : body.info[k] # <<>>}
       IN Merge(Merge([file_extension |-> <<".","p","d","f">>,
                       processing_method |-> <<"pypdf">>,
                       processor |-> <<"PDFProcessor">>],
                      [k \in truthy |-> body.info[k]]),
                [page_count |-> Len(body.pages)])

\* ------------------------------------------- DocumentProcessorManager
\* Path(file_path).name: what follows the last "/"
RECURSIVE basename(_)
basename(path) ==
  IF \E i \in 1..Len(path) : path[i] = "/" THEN basename(Tail(path)) ELSE path

\* self.supported_extensions of each processor class: the base class has
\* none (line 29), the PDF processor [".pdf"] only when pypdf was imported
\* (lines 47-52), the JSON processor [".json"] (line 124).
supported_extensions(processor, pypdf_available) ==
  IF processor = "PDFProcessor"
  THEN (IF pypdf_available THEN {<<".","p","d","f">>} ELSE {})
  ELSE IF processor = "JSONProcessor" THEN {<<".","j","s","o","n">>}
  ELSE {}

\* can_process comparing the suffix as written.
can_process_case_sensitive(processor, path, pypdf_available) ==
  suffix(basename(path)) \in supported_extensions(processor, pypdf_available)

\* DocumentProcessor.can_process (lines 31-33)
can_process(processor, path, pypdf_available) ==
  lower(suffix(basename(path))) \in supported_extensions(processor, pypdf_available)

\* get_processor (lines 211-216) over self.processors = [PDF, JSON]
get_processor(path, pypdf_available) ==
  IF can_process("PDFProcessor", path, pypdf_available) THEN "PDFProcessor"
  ELSE IF can_process("JSONProcessor", path, pypdf_available) THEN "JSONProcessor"
  ELSE "none"

\* _is_safe_path without the test of line 222.
is_safe_path_no_traversal_test(path, entry) ==
  IF ~entry.exists \/ ~entry.is_file THEN FALSE
  ELSE TRUE

\* _is_safe_path (lines 218-229); `entry` is what the file system holds there
is_safe_path(path, entry) ==
  IF Contains(path, <<".", ".">>) THEN FALSE
  ELSE IF ~entry.exists \/ ~entry.is_file THEN FALSE
  ELSE TRUE

\* The (text, metadata, success) of every rejection
Rejected == [text |-> <<>>, metadata |-> [k \in {} |-> <<>>], success |-> FALSE]

\* process_document reading an unmatched file with errors="replace": bytes
\* that are not UTF-8 become replacement characters.
process_document_replace_errors(path, entry, max_file_size, pypdf_available) ==
  IF ~is_safe_path(path, entry) THEN Rejected
  ELSE IF entry.size > max_file_size THEN Rejected
  ELSE LET processor == get_processor(path, pypdf_available)
           body == entry.body
           extracted ==
             IF processor = "PDFProcessor"
             THEN [ok |-> TRUE, text |-> pdf_extract_text(body),
                   metadata |-> pdf_extract_metadata(body, pypdf_available)]
             ELSE IF processor = "JSONProcessor"
             THEN [ok |-> TRUE, text |-> json_extract_text(body),
                   metadata |-> json_extract_metadata(body)]
             ELSE [ok |-> TRUE,
                   text |-> IF body.utf8 THEN body.raw ELSE <<"?">>,
                   metadata |-> [file_extension |-> suffix(basename(path)),
                                 processing_method |-> <<"direct_file_read">>,
                                 processor |-> <<"none">>]]
       IN IF ~extracted.ok THEN Rejected
          ELSE IF strip(extracted.text) = <<>> THEN Rejected
          ELSE [text |-> extracted.text, metadata |-> extracted.metadata,
                success |-> TRUE]

\* process_document (lines 297-358)
process_document(path, entry, max_file_size, pypdf_available) ==
  IF ~is_safe_path(path, entry) THEN Rejected
  ELSE IF entry.size > max_file_size THEN Rejected
  ELSE LET processor == get_processor(path, pypdf_available)
           body == entry.body
           extracted ==
             IF processor = "PDFProcessor"
             THEN [ok |-> TRUE, text |-> pdf_extract_text(body),
                   metadata |-> pdf_extract_metadata(body, pypdf_available)]
             ELSE IF processor = "JSONProcessor"
             THEN [ok |-> TRUE, text |-> json_extract_text(body),
                   metadata |-> json_extract_metadata(body)]
             ELSE IF body.utf8
             THEN [ok |-> TRUE, text |-> body.raw,
                   metadata |-> [file_extension |-> suffix(basename(path)),
                                 processing_method |-> <<"direct_file_read">>,
                                 processor |-> <<"none">>]]
             ELSE [ok |-> FALSE, text |-> <<>>, metadata |-> [k \in {} |-> <<>>]]
       IN IF ~extracted.ok THEN Rejected
          ELSE IF strip(extracted.text) = <<>> THEN Rejected
          ELSE [text |-> extracted.text, metadata |-> extracted.metadata,
                success |-> TRUE]

\* ---------------------------------------------------- the ingest handler
\* f"File {file.filename} exceeds maximum size ({max_size} bytes)" (line 110)
size_error_msg(filename, max_size) ==
  <<"File ">> \o filename \o <<" exceeds maximum size (", ToString(max_size), " bytes)">>

\* f"Failed to extract text from {file.filename}" (line 164)
extract_error_msg(filename) == <<"Failed to extract text from ">> \o filename

\* f"Processing error for {file.filename}: {str(proc_error)}" (lines 170-172)
processing_error_msg(filename, proc_error) ==
  <<"Processing error for ">> \o filename \o <<": ">> \o proc_error

\* f"File handling error for {file.filename}: {str(file_error)}" (lines 187-189)
file_error_msg(filename, file_error) ==
  <<"File handling error for ">> \o filename \o <<": ">> \o file_error

\* stats after a failure that is counted without its message being kept.
record_failure_count_only(st, error_msg) ==
  [st EXCEPT !.failed_files = @ + 1]

\* stats after `stats["failed_files"] += 1; stats["errors"].append(error_msg)`
record_failure(st, error_msg) ==
  [st EXCEPT !.failed_files = @ + 1, !.errors = Append(@, error_msg)]

\* chunk_metadata numbering the chunks from 1.
chunk_metadata_one_based(metadata_from_doc_processor, i, n, filename) ==
  Merge(metadata_from_doc_processor,
        [chunk_index |-> i + 1,
         total_chunks |-> n,
         file_name |-> filename,
         document_id |-> Get(metadata_from_doc_processor, "document_id", filename),
         chunk_id |-> Get(metadata_from_doc_processor, "document_id", filename)
                        \o <<"_chunk_", ToString(i + 1)>>])

\* chunk_metadata spreading the extractor's mapping last, so that it wins.
chunk_metadata_extractor_last(metadata_from_doc_processor, i, n, filename) ==
  Merge([chunk_index |-> i,
         total_chunks |-> n,
         file_name |-> filename,
         document_id |-> Get(metadata_from_doc_processor, "document_id", filename),
         chunk_id |-> Get(metadata_from_doc_processor, "document_id", filename)
                        \o <<"_chunk_", ToString(i)>>],
        metadata_from_doc_processor)

\* The chunk_metadata of chunk i (0-based) of n (lines 139-148)
chunk_metadata(metadata_from_doc_processor, i, n, filename) ==
  Merge(metadata_from_doc_processor,
        [chunk_index |-> i,
         total_chunks |-> n,
         file_name |-> filename,
         document_id |-> Get(metadata_from_doc_processor, "document_id", filename),
         chunk_id |-> Get(metadata_from_doc_processor, "document_id", filename)
                        \o <<"_chunk_", ToString(i)>>])

\* batch_chunks as built by the loop of lines 137-152
build_batch(chunk_list, metadata_from_doc_processor, filename) ==
  [j \in 1..Len(chunk_list) |->
     [content |-> chunk_list[j],
      metadata |-> chunk_metadata(metadata_from_doc_processor, j - 1,
                                  Len(chunk_list), filename)]]

\* The response naming any success a full one.
ingest_response_any_success(st, total_files) ==
  [success |-> st.processed_files > 0,
   message |->
     IF st.processed_files > 0
     THEN <<"Successfully ingested ", ToString(st.processed_files), " documents">>
     ELSE <<"Failed to ingest any documents. ", ToString(st.failed_files),
            " files failed">>,
   processed_files |-> st.processed_files,
   failed_files |-> st.failed_files,
   errors |-> st.errors]

\* The response of lines 194-215
ingest_response(st, total_files) ==
  [success |-> st.processed_files > 0,
   message |->
     IF st.processed_files = total_files
     THEN <<"Successfully ingested ", ToString(st.processed_files), " documents">>
     ELSE IF st.processed_files > 0
     THEN <<"Partially successful: ", ToString(st.processed_files), "/",
            ToString(total_files), " documents ingested">>
     ELSE <<"Failed to ingest any documents. ", ToString(st.failed_files),
            " files failed">>,
   processed_files |-> st.processed_files,
   failed_files |-> st.failed_files,
   errors |-> st.errors]

\* ------------------------------------------------- correct_pgvector_score
\* A Python float: finite (the exact rational n/d, d > 0), inf, -inf or nan.
\* Finite arithmetic is exact; rounding does not move a value across the
\* comparisons made below.
Fin(n, d) == [cls |-> "fin", n |-> n, d |-> d]
Inf == [cls |-> "inf", n |-> 1, d |-> 1]
NegInf == [cls |-> "ninf", n |-> -1, d |-> 1]
NaN == [cls |-> "nan", n |-> 0, d |-> 1]

\* a < b on floats: false as soon as one side is nan
float_lt(a, b) ==
  IF a.cls = "nan" \/ b.cls = "nan" THEN FALSE
  ELSE IF a.cls = "inf" \/ b.cls = "ninf" THEN FALSE
  ELSE IF a.cls = "ninf" \/ b.cls = "inf" THEN TRUE
  ELSE a.n * b.d < b.n * a.d

\* a == b on floats
float_eq(a, b) ==
  IF a.cls = "nan" \/ b.cls = "nan" THEN FALSE
  ELSE IF a.cls # "fin" \/ b.cls # "fin" THEN a.cls = b.cls
  ELSE a.n * b.d = b.n * a.d

\* a <= b on floats
float_le(a, b) == float_lt(a, b) \/ float_eq(a, b)

\* 1.0 / x for a float x that is not zero
float_inverse(x) ==
  IF x.cls = "nan" THEN NaN
  ELSE IF x.cls \in {"inf", "ninf"} THEN Fin(0, 1)
  ELSE IF x.n > 0 THEN Fin(x.d, x.n) ELSE Fin(-x.d, -x.n)

\* a - b and a + b for floats of which at most one is infinite
float_sub(a, b) ==
  IF a.cls = "nan" \/ b.cls = "nan" THEN NaN
  ELSE IF a.cls # "fin" THEN a
  ELSE IF b.cls = "inf" THEN NegInf
  ELSE IF b.cls = "ninf" THEN Inf
  ELSE Fin(a.n * b.d - b.n * a.d, a.d * b.d)

float_add(a, b) ==
  IF a.cls = "nan" \/ b.cls = "nan" THEN NaN
  ELSE IF a.cls # "fin" THEN a
  ELSE IF b.cls # "fin" THEN b
  ELSE Fin(a.n * b.d + b.n * a.d, a.d * b.d)

\* a / 2.0
float_half(a) == IF a.cls = "fin" THEN Fin(a.n, 2 * a.d) ELSE a

\* The builtins min(a, b) and max(a, b): the first argument is kept unless
\* the second compares smaller (larger).
py_min(a, b) == IF float_lt(b, a) THEN b ELSE a
py_max(a, b) == IF float_lt(a, b) THEN b ELSE a

\* A Python value handed to correct_pgvector_score: its type, and the field
\* of that type (f of a float, n of an int, b of a bool, s of a str).  An int
\* of type "bigint" is one above the range of float.
PyVal(type, f, n, b, str) == [type |-> type, f |-> f, n |-> n, b |-> b, s |-> str]
PyFloat(f) == PyVal("float", f, 0, FALSE, <<>>)
PyInt(n) == PyVal("int", Fin(0, 1), n, FALSE, <<>>)
PyBigInt == PyVal("bigint", Fin(0, 1), 0, FALSE, <<>>)
PyBool(b) == PyVal("bool", Fin(0, 1), 0, b, <<>>)
PyStr(str) == PyVal("str", Fin(0, 1), 0, FALSE, str)
PyNone == PyVal("NoneType", Fin(0, 1), 0, FALSE, <<>>)
PyList == PyVal("list", Fin(0, 1), 0, FALSE, <<>>)
PyDict == PyVal("dict", Fin(0, 1), 0, FALSE, <<>>)
PyObject == PyVal("object", Fin(0, 1), 0, FALSE, <<>>)

\* The decimal digits a string may hold
Digits == {"0", "1", "2", "3", "4", "5", "6", "7", "8", "9"}

digit_value(c) ==
  CASE c = "0" -> 0 [] c = "1" -> 1 [] c = "2" -> 2 [] c = "3" -> 3
    [] c = "4" -> 4 [] c = "5" -> 5 [] c = "6" -> 6 [] c = "7" -> 7
    [] c = "8" -> 8 [] c = "9" -> 9

\* float(str) on an unsigned decimal literal "ddd" or "ddd.ddd": the digits
\* read so far are n/d; `point` tells whether the point was passed, `any`
\* whether a digit was read.
RECURSIVE parse_decimal(_, _, _, _, _)
parse_decimal(str, n, d, point, any) ==
  IF str = <<>> THEN [ok |-> any, f |-> Fin(n, d)]
  ELSE IF Head(str) \in Digits
  THEN parse_decimal(Tail(str), 10 * n + digit_value(Head(str)),
                     IF point THEN 10 * d ELSE d, point, TRUE)
  ELSE IF Head(str) = "." /\ ~point
  THEN parse_decimal(Tail(str), n, d, TRUE, any)
  ELSE [ok |-> FALSE, f |-> Fin(0, 1)]

\* float(str): surrounding whitespace is dropped, a sign is read, then "inf",
\* "nan" or a decimal literal; anything else is a ValueError (ok = FALSE).
float_of_str(str) ==
  LET body == strip(str)
      negative == body # <<>> /\ Head(body) = "-"
      signed == body # <<>> /\ Head(body) \in {"-", "+"}
      rest == IF signed THEN Tail(body) ELSE body
      magnitude ==
        IF rest = <<"i", "n", "f">> THEN [ok |-> TRUE, f |-> Inf]
        ELSE IF rest = <<"n", "a", "n">> THEN [ok |-> TRUE, f |-> NaN]
        ELSE parse_decimal(rest, 0, 1, FALSE, FALSE)
  IN IF ~magnitude.ok THEN magnitude
     ELSE IF ~negative THEN magnitude
     ELSE IF magnitude.f.cls = "inf" THEN [ok |-> TRUE, f |-> NegInf]
     ELSE IF magnitude.f.cls = "nan" THEN magnitude
     ELSE [ok |-> TRUE, f |-> Fin(-magnitude.f.n, magnitude.f.d)]

\* float(score) of line 67: the float, or the exception raised
to_float(score) ==
  CASE score.type = "float" -> [raised |-> "none", f |-> score.f]
    [] score.type = "int" -> [raised |-> "none", f |-> Fin(score.n, 1)]
    [] score.type = "bool" ->
         [raised |-> "none", f |-> Fin(IF score.b THEN 1 ELSE 0, 1)]
    [] score.type = "bigint" -> [raised |-> "OverflowError", f |-> NaN]
    [] score.type = "str" ->
         LET parsed == float_of_str(score.s) IN
         IF parsed.ok THEN [raised |-> "none", f |-> parsed.f]
         ELSE [raised |-> "ValueError", f |-> NaN]
    [] OTHER -> [raised |-> "TypeError", f |-> NaN]

\* Lines 78-88 without the clamp of line 84.
normalized_score_noclamp(score_float) ==
  LET original_distance == float_inverse(score_float)
      corrected_similarity == float_sub(Fin(1, 1), original_distance)
  IN float_half(float_add(corrected_similarity, Fin(1, 1)))

\* Lines 78-88 without the "+ 1.0" of line 88.
normalized_score_noshift(score_float) ==
  LET original_distance == float_inverse(score_float)
      corrected_similarity == float_sub(Fin(1, 1), original_distance)
      clamped_similarity ==
        py_max(Fin(-1, 1), py_min(Fin(1, 1), corrected_similarity))
  IN float_half(clamped_similarity)

\* Lines 78-88: the general formula, for a score_float that passed the
\* guards of lines 70-75.
normalized_score(score_float) ==
  LET original_distance == float_inverse(score_float)
      corrected_similarity == float_sub(Fin(1, 1), original_distance)
      clamped_similarity ==
        py_max(Fin(-1, 1), py_min(Fin(1, 1), corrected_similarity))
  IN float_half(float_add(clamped_similarity, Fin(1, 1)))

\* What a call gives: the value returned, or the exception that leaves it.
Returned(value) == [raised |-> "none", value |-> value]
Raised(exception) == [raised |-> exception, value |-> PyNone]

\* correct_pgvector_score (lines 39-97)
correct_pgvector_score(score) ==
  IF (score.type = "str" /\ score.s = <<"N", "/", "A">>) \/ score.type = "NoneType"
  THEN Returned(score)
  ELSE LET converted == to_float(score)
           score_float == converted.f
       IN IF converted.raised = "ValueError" THEN Returned(score)
          ELSE IF converted.raised # "none" THEN Raised(converted.raised)
          ELSE IF float_eq(score_float, Inf) THEN Returned(PyFloat(Fin(1, 1)))
          ELSE IF float_le(score_float, Fin(0, 1)) THEN Returned(PyFloat(Fin(0, 1)))
          ELSE Returned(PyFloat(normalized_score(score_float)))

\* ------------------------------------------------------------- the inputs
MaxFiles == 3
MaxDocSize == 2

\* What a file holds: whether it decodes as UTF-8 (and to what), whether pypdf
\* reads it (its page texts and document information, whether extracting a
\* page's text raises, whether reading the document information raises),
\* whether json.load parses it (and to what).
TextBody(raw) ==
  [utf8 |-> TRUE, raw |-> raw, is_pdf |-> FALSE, pages |-> <<>>,
   info |-> [k \in {} |-> <<>>], text_raises |-> FALSE, info_raises |-> FALSE,
   is_json |-> FALSE, json |-> JLeaf(<<>>)]

PdfBody(pages, info) ==
  [utf8 |-> FALSE, raw |-> <<>>, is_pdf |-> TRUE, pages |-> pages,
   info |-> info, text_raises |-> FALSE, info_raises |-> FALSE,
   is_json |-> FALSE, json |-> JLeaf(<<>>)]

\* A PDF whose document information pypdf fails on
PdfBodyBadInfo(pages) ==
  [PdfBody(pages, [k \in {} |-> <<>>]) EXCEPT !.info_raises = TRUE]

\* A PDF with a page whose extract_text raises
PdfBodyBadPage(pages, info) ==
  [PdfBody(pages, info) EXCEPT !.text_raises = TRUE]

JsonBody(raw, value) ==
  [utf8 |-> TRUE, raw |-> raw, is_pdf |-> FALSE, pages |-> <<>>,
   info |-> [k \in {} |-> <<>>], text_raises |-> FALSE, info_raises |-> FALSE,
   is_json |-> TRUE, json |-> value]

BinaryBody ==
  [utf8 |-> FALSE, raw |-> <<>>, is_pdf |-> FALSE, pages |-> <<>>,
   info |-> [k \in {} |-> <<>>], text_raises |-> FALSE, info_raises |-> FALSE,
   is_json |-> FALSE, json |-> JLeaf(<<>>)]

\* An uploaded file: its name, its size, what it holds, and what the
\* environment does while it is handled ("ok", "copy_fails": copying into the
\* temporary file raises, "sink_raises": vector_io.insert raises,
\* "unlink_fails": deleting the temporary file raises).
Upload(filename, size, body, io) ==
  [filename |-> filename, size |-> size, body |-> body, io |-> io]

\* {"a": {"b": 1}, "c": [2, 3]}
ExampleJson ==
  JDict(<< <<<<"a">>, JDict(<< <<<<"b">>, JLeaf(<<"1">>)>> >>)>>,
           <<<<"c">>, JList(<<JLeaf(<<"2">>), JLeaf(<<"3">>)>>)>> >>)

GoodText == Upload(<<"n", ".", "t", "x", "t">>, 1,
                   TextBody(<<"a", ".", " ", "b", " ", "c">>), "ok")
GoodPdf == Upload(<<"r", ".", "p", "d", "f">>, MaxDocSize,
                  PdfBody(<< <<"a", "b">>, <<"c", ".">> >>,
                          [title |-> <<"T">>, author |-> <<>>]), "ok")
GoodJson == Upload(<<"d", ".", "j", "s", "o", "n">>, 1,
                   JsonBody(<<"{", "}">>, ExampleJson), "ok")
Oversize == Upload(<<"b", "i", "g", ".", "t", "x", "t">>, MaxDocSize + 1,
                   TextBody(<<"a", "a", " ", "b">>), "ok")
BrokenPdf == Upload(<<"x", ".", "P", "D", "F">>, 1, TextBody(<<"a">>), "ok")
Binary == Upload(<<"b", ".", "b", "i", "n">>, 1, BinaryBody, "ok")
Blank == Upload(<<"e", ".", "t", "x", "t">>, 1, TextBody(<<" ", "\n">>), "ok")
DotDot == Upload(<<"v", ".", ".", "t", "x", "t">>, 1, TextBody(<<"a">>), "ok")
SinkRaises == Upload(<<"s", ".", "t", "x", "t">>, 1,
                     TextBody(<<"a", "a", " ", "b", "b">>), "sink_raises")
CopyFails == Upload(<<"c", ".", "t", "x", "t">>, 1, TextBody(<<"a">>), "copy_fails")
UnlinkFails == Upload(<<"u", ".", "t", "x", "t">>, 1, TextBody(<<"a">>), "unlink_fails")

\* The uploads tried, in three groups; a request's files come from one group.
\* Documents that are stored, next to the failures around the sink call.
SinkUploads == {GoodText, GoodPdf, Oversize, SinkRaises, CopyFails}
\* Documents that are stored, next to the failures of process_document.
ExtractionUploads == {GoodJson, BrokenPdf, Binary, Blank, DotDot, UnlinkFails}
\* The documents whose handling depends on pypdf having been imported.
PdfUploads == {GoodPdf, BrokenPdf, GoodText}

Uploads == SinkUploads \cup ExtractionUploads

\* The stubbed DocumentProcessorManager of the handler test: process_document
\* returns ("test content", metadata, True) and chunk_text two chunks
\* (tests/test_admin_api.py lines 99-106); the metadata mappings tried are the
\* test's and ones that also carry the keys the handler writes.
MockText == <<"test content">>
MockChunks == << <<"chunk1">>, <<"chunk2">> >>
MockMetadatas ==
  { [document_id |-> <<"test">>],
    [document_id |-> <<"test">>, chunk_index |-> 7, total_chunks |-> 9,
     file_name |-> <<"other">>, chunk_id |-> <<"cid">>, title |-> <<"T">>],
    [chunk_id |-> <<"cid">>, processor |-> <<"none">>] }
MockUploads ==
  { Upload(<<"t", "e", "s", "t", ".", "t", "x", "t">>, 1,
           TextBody(<<"test content">>), "ok"),
    SinkRaises }

VECTOR_DB_ID == <<"boann-vector-db-id">>

SeqsUpTo(S, n) == UNION {[1..k -> S] : k \in 1..n}

\* ------------------------------------------------------------------ state
VARIABLES
  text,          \* chunk_text: the `text` argument
  chunk_size,    \* chunk_text: the `chunk_size` argument; CHUNK_SIZE
  chunk_overlap, \* DocumentProcessorManager.chunk_overlap; CHUNK_OVERLAP
  chunks,        \* chunk_text: the local `chunks` when the call returns
  final_chunks,  \* chunk_text: the returned list
  cpc,           \* chunk_text: "ready" before the call, "returned" after it
  files,         \* ingest_documents: the uploaded files
  idx,           \* ingest_documents: position of `for file in files` (1-based)
  pc,            \* ingest_documents: the statement the handler is at
  stats,         \* ingest_documents: processed_files, failed_files, errors
  tmp_file_path, \* ingest_documents: the local of line 123
  batch_chunks,  \* ingest_documents: the local of line 137
  response,      \* ingest_documents: the IngestResponse returned
  sink,          \* the vector_io.insert calls the sink received, in order
  tmp_files,     \* the temporary files on disk
  unlink_calls,  \* the paths Path(...).unlink() was called on
  max_document_size, \* MAX_DOCUMENT_SIZE
  pypdf,         \* whether `import pypdf` succeeded
  doc_processor, \* "real", or "mock" when DocumentProcessorManager is patched
  mock_metadata, \* the metadata the patched process_document returns
  authorization, \* POST /ingest: the Authorization header of the request
  llama_client,  \* whether request.app.state.llama_client is set
  enable_rag,    \* the environment variable ENABLE_RAG
  http_error,    \* the HTTPException the request ended with
  file_path,     \* process_document: the `file_path` argument
  fs_entry,      \* what the file system holds at file_path
  dpc,           \* process_document: the statement the call is at
  processor,     \* process_document: the local of line 325
  extracted_text, \* process_document: the local `text`
  metadata,      \* process_document: the local `metadata`
  doc_result,    \* process_document: the tuple returned
  opened,        \* the open() calls made on file_path, in order
  caller_chunks, \* the caller's `chunks` of admin_api.py line 133
  score,         \* correct_pgvector_score: the `score` argument
  corrected_score, \* what the call of correct_pgvector_score gave
  spc            \* correct_pgvector_score: "ready" before the call, "returned" after

chunkVars == <<text, chunks, final_chunks, cpc>>

configVars == <<chunk_size, chunk_overlap, max_document_size, pypdf,
                doc_processor, mock_metadata>>

ingestVars == <<files, idx, pc, stats, tmp_file_path, batch_chunks, response,
                sink, tmp_files, unlink_calls>>

requestVars == <<authorization, llama_client, enable_rag, http_error>>

docVars == <<file_path, fs_entry, dpc, processor, extracted_text, metadata,
             doc_result, opened, caller_chunks>>

scoreVars == <<score, corrected_score, spc>>

\* scripts/ingest_documents.py: one run of process_directory.
VARIABLES
  directory,         \* the directory given: whether it exists, what rglob lists
  supported_formats, \* self.supported_formats
  dir_pc,            \* where process_directory is
  all_idx,           \* the position of the validation loop in all_files
  valid_files,       \* the files queued for the admin API
  dir_stats,         \* stats of the validation loop
  send_idx,          \* the position of the sending loop in valid_files
  total_processed,
  total_failed,
  all_errors,
  api_log,           \* the files sent to the admin API with what came back
  dir_result         \* what process_directory returned

dirVars == <<directory, supported_formats, dir_pc, all_idx, valid_files,
             dir_stats, send_idx, total_processed, total_failed, all_errors,
             api_log, dir_result>>

\* src/api/public_api.py and src/boann_server.py: the vector database is
\* registered at start-up and one RAG query is answered.
VARIABLES
  VECTOR_DB_PROVIDER,  \* the environment variable
  providers,           \* the vector_io providers LlamaStack lists
  vector_provider,     \* the provider the vector database is registered with
  results,             \* what client.vector_io.query returned
  q_idx,               \* the position of the loop over results.chunks
  chunk_metadata_list,
  correction_calls,    \* the positions correct_pgvector_score was called for
  query_pc

queryVars == <<VECTOR_DB_PROVIDER, providers, vector_provider, results, q_idx,
               chunk_metadata_list, correction_calls, query_pc>>

\* src/api/public_api.py: one run of the generator create_sse_stream.
VARIABLES
  agent_output,  \* what agent.create_turn returned
  sse_pc,        \* where the generator is
  sse_idx,       \* the position of the iteration over agent_output
  stream         \* the events yielded so far

sseVars == <<agent_output, sse_pc, sse_idx, stream>>

\* scripts/start_boann.py: main() and the signal handler.
VARIABLES
  prerequisites,       \* what the checks and the two Popen calls will meet
  start_pc,            \* where main() is
  llamastack_process,  \* self.llamastack_process: "none", "running", "exited"
  boann_process,       \* self.boann_process
  shutdown_requested,
  health_reply,        \* the answer to the health request in flight
  elapsed,             \* the health checks made since start_time
  signals,             \* the signals delivered
  events               \* the starts, terminations and signals in order

startVars == <<prerequisites, start_pc, llamastack_process, boann_process,
               shutdown_requested, health_reply, elapsed, signals, events>>

\* src/api/admin_api.py: two calls of ingest_documents served at the same time.
VARIABLES
  requests,     \* the locals of each call: files, idx, pc, stats, ...
  vector_io,    \* the insert calls the shared client received, in order
  temp_dir,     \* the temporary directory: path -> what the file holds
  temp_serial   \* the temporary files created so far

pairVars == <<requests, vector_io, temp_dir, temp_serial>>

\* The machines of the scripts and of the public API, and the pair of requests.
extVars == <<dirVars, queryVars, sseVars, startVars, pairVars>>

\* The machines of the document pipeline.
coreVars == <<chunkVars, configVars, ingestVars, requestVars, docVars, scoreVars>>

\* What the loop over the uploaded files leaves alone.
loopFrame == <<chunkVars, configVars, requestVars, docVars, scoreVars, extVars>>

vars == <<coreVars, extVars>>

NoResponse ==
  [success |-> FALSE, message |-> <<>>, processed_files |-> 0,
   failed_files |-> 0, errors |-> <<>>]

\* No request in progress.
IngestIdle ==
  /\ files = <<>>
  /\ idx = 1
  /\ pc = "idle"
  /\ stats = [processed_files |-> 0, failed_files |-> 0, errors |-> <<>>]
  /\ tmp_file_path = <<>>
  /\ batch_chunks = <<>>
  /\ response = NoResponse
  /\ sink = <<>>
  /\ tmp_files = {}
  /\ unlink_calls = {}

\* An environment variable: unset, or set to a string.
Unset == [set |-> FALSE, value |-> <<>>]
SetTo(value) == [set |-> TRUE, value |-> value]

\* os.getenv(name, default)
getenv(variable, default) == IF variable.set THEN variable.value ELSE default

NoError == [status_code |-> 0, detail |-> <<>>]

\* A request that passes every check, before it is checked.
RequestIdle ==
  /\ authorization = "valid"
  /\ llama_client = TRUE
  /\ enable_rag = SetTo(<<"t", "r", "u", "e">>)
  /\ http_error = NoError

NoMetadata == [k \in {} |-> <<>>]

\* No call of process_document in progress.
DocIdle ==
  /\ file_path = <<>>
  /\ fs_entry = [exists |-> FALSE, is_file |-> FALSE, size |-> 0,
                  body |-> TextBody(<<>>)]
  /\ dpc = "idle"
  /\ processor = "none"
  /\ extracted_text = <<>>
  /\ metadata = NoMetadata
  /\ doc_result = Rejected
  /\ opened = <<>>
  /\ caller_chunks = <<>>

\* No call of correct_pgvector_score in progress.
ScoreIdle ==
  /\ score = PyNone
  /\ corrected_score = Returned(PyNone)
  /\ spc = "idle"

\* An empty dict.
EmptyDict == [k \in {} |-> <<>>]

\* process_directory is not running.
DirIdle ==
  /\ directory = [exists |-> FALSE, all_files |-> <<>>]
  /\ supported_formats = <<>>
  /\ dir_pc = "idle"
  /\ all_idx = 1
  /\ valid_files = <<>>
  /\ dir_stats = EmptyDict
  /\ send_idx = 1
  /\ total_processed = 0
  /\ total_failed = 0
  /\ all_errors = <<>>
  /\ api_log = <<>>
  /\ dir_result = EmptyDict

\* The public server is not running.
QueryIdle ==
  /\ VECTOR_DB_PROVIDER = Unset
  /\ providers = {}
  /\ vector_provider = "none"
  /\ results = [chunks |-> <<>>, scores |-> <<>>]
  /\ q_idx = 1
  /\ chunk_metadata_list = <<>>
  /\ correction_calls = <<>>
  /\ query_pc = "idle"

\* No stream is being produced.
SseIdle ==
  /\ agent_output = [kind |-> "object", items |-> <<>>]
  /\ sse_pc = "idle"
  /\ sse_idx = 1
  /\ stream = <<>>

\* The start-up script is not running.
StartIdle ==
  /\ prerequisites = "ok"
  /\ start_pc = "idle"
  /\ llamastack_process = "none"
  /\ boann_process = "none"
  /\ shutdown_requested = FALSE
  /\ health_reply = "none"
  /\ elapsed = 0
  /\ signals = 0
  /\ events = <<>>

\* No pair of ingestion requests is being served.
PairIdle ==
  /\ requests = <<>>
  /\ vector_io = <<>>
  /\ temp_dir = EmptyDict
  /\ temp_serial = 0

\* No script and no public request is running.
ExtIdle == DirIdle /\ QueryIdle /\ SseIdle /\ StartIdle /\ PairIdle

\* ---------------------------------------------------- the chunker, alone
InitChunk ==
  /\ text \in Texts
  /\ chunk_size \in 1..MaxChunkSize
  /\ chunk_overlap \in 0..MaxOverlap
  /\ chunks = <<>>
  /\ final_chunks = <<>>
  /\ cpc = "ready"
  /\ max_document_size = MaxDocSize
  /\ pypdf = TRUE
  /\ doc_processor = "real"
  /\ mock_metadata = [k \in {} |-> <<>>]
  /\ IngestIdle
  /\ RequestIdle
  /\ DocIdle
  /\ ScoreIdle
  /\ ExtIdle

\* One call of chunk_text(text, chunk_size).
ChunkText ==
  /\ cpc = "ready"
  /\ chunks' = sentence_chunks(text, chunk_size, chunk_overlap)
  /\ final_chunks' = chunk_text(text, chunk_size, chunk_overlap)
  /\ cpc' = "returned"
  /\ UNCHANGED <<text, configVars, ingestVars, requestVars, docVars, scoreVars,
                 extVars>>

NextChunk == ChunkText

SpecChunk == InitChunk /\ [][NextChunk]_vars

\* ------------------------------------------------------- POST /ingest
\* The Authorization headers tried: none, one of another scheme, a bearer
\* token that is not the admin key, the admin key.
Authorizations == {"missing", "other_scheme", "wrong", "valid"}

\* The settings of ENABLE_RAG tried.
EnableRagValues ==
  {Unset, SetTo(<<"t", "r", "u", "e">>), SetTo(<<"T", "R", "U", "E">>),
   SetTo(<<"f", "a", "l", "s", "e">>)}

\* A request arrives; the batches of every kind come with the admin key, a
\* client and RAG enabled, and every other combination of the three comes
\* with a batch of plain documents.
InitIngest ==
  /\ text = <<>> /\ chunks = <<>> /\ final_chunks = <<>> /\ cpc = "idle"
  /\ chunk_size = MaxChunkSize
  /\ chunk_overlap = 1
  /\ max_document_size = MaxDocSize
  /\ \/ /\ doc_processor = "real"
        /\ mock_metadata = [k \in {} |-> <<>>]
        /\ pypdf = TRUE
        /\ \E group \in {SinkUploads, ExtractionUploads} :
             files \in SeqsUpTo(group, MaxFiles)
        /\ RequestIdle
     \/ /\ doc_processor = "real"
        /\ mock_metadata = [k \in {} |-> <<>>]
        /\ pypdf = FALSE
        /\ files \in SeqsUpTo(PdfUploads, MaxFiles)
        /\ RequestIdle
     \/ /\ doc_processor = "mock"
        /\ mock_metadata \in MockMetadatas
        /\ pypdf = TRUE
        /\ files \in SeqsUpTo(MockUploads, MaxFiles)
        /\ RequestIdle
     \/ /\ doc_processor = "real"
        /\ mock_metadata = [k \in {} |-> <<>>]
        /\ pypdf = TRUE
        /\ files \in SeqsUpTo({GoodText}, MaxFiles)
        /\ authorization \in Authorizations
        /\ llama_client \in BOOLEAN
        /\ enable_rag \in EnableRagValues
        /\ http_error = NoError
  /\ DocIdle
  /\ ScoreIdle
  /\ ExtIdle
  /\ idx = 1
  /\ pc = "auth"
  /\ stats = [processed_files |-> 0, failed_files |-> 0, errors |-> <<>>]
  /\ tmp_file_path = <<>>
  /\ batch_chunks = <<>>
  /\ response = NoResponse
  /\ sink = <<>>
  /\ tmp_files = {}
  /\ unlink_calls = {}

\* What the file system holds at a temporary path: the upload's bytes.
tmp_entry(path, file) ==
  [exists |-> path \in tmp_files, is_file |-> path \in tmp_files,
   size |-> file.size, body |-> file.body]

\* The frame of the three checks made before the loop.
checkFrame == <<chunkVars, configVars, docVars, scoreVars, extVars, files, idx, stats,
                tmp_file_path, batch_chunks, response, sink, tmp_files,
                unlink_calls, authorization, llama_client, enable_rag>>

\* VerifyAdminApiKey taking every bearer token for the admin key.
VerifyAdminApiKey_any_token ==
  /\ pc = "auth"
  /\ IF authorization \in {"missing", "other_scheme"}
     THEN /\ http_error' = [status_code |-> 403, detail |-> <<"Not authenticated">>]
          /\ pc' = "rejected"
     ELSE /\ pc' = "client"
          /\ UNCHANGED http_error
  /\ UNCHANGED checkFrame

\* Depends(security) with security = HTTPBearer() (line 24), which answers a
\* request without bearer credentials with 403, then verify_admin_api_key
\* (lines 49-59).
VerifyAdminApiKey ==
  /\ pc = "auth"
  /\ IF authorization \in {"missing", "other_scheme"}
     THEN /\ http_error' = [status_code |-> 403, detail |-> <<"Not authenticated">>]
          /\ pc' = "rejected"
     ELSE IF authorization # "valid"
     THEN /\ http_error' = [status_code |-> 401,
                             detail |-> <<"Invalid admin API key">>]
          /\ pc' = "rejected"
     ELSE /\ pc' = "client"
          /\ UNCHANGED http_error
  /\ UNCHANGED checkFrame

\* Lines 81-86: the LlamaStack client of the application.
CheckClient ==
  /\ pc = "client"
  /\ IF ~llama_client
     THEN /\ http_error' = [status_code |-> 500,
                             detail |-> <<"LlamaStack client not available">>]
          /\ pc' = "rejected"
     ELSE /\ pc' = "rag"
          /\ UNCHANGED http_error
  /\ UNCHANGED checkFrame

\* Lines 88-93: ENABLE_RAG.
CheckRag ==
  /\ pc = "rag"
  /\ IF lower(getenv(enable_rag, <<"f", "a", "l", "s", "e">>)) # <<"t", "r", "u", "e">>
     THEN /\ http_error' = [status_code |-> 400,
                             detail |-> <<"RAG is not enabled",
                                          ". Set ENABLE_RAG=true to use this endpoint.">>]
          /\ pc' = "rejected"
     ELSE /\ pc' = "loop"
          /\ UNCHANGED http_error
  /\ UNCHANGED checkFrame

\* CheckSize leaving the loop at the first oversize file.
CheckSize_break ==
  /\ pc = "loop"
  /\ idx <= Len(files)
  /\ LET file == files[idx] IN
     IF file.size # 0 /\ file.size > max_document_size
     THEN /\ stats' = record_failure(stats,
                        size_error_msg(file.filename, max_document_size))
          /\ idx' = Len(files) + 1
          /\ pc' = "loop"
     ELSE /\ pc' = "copy"
          /\ UNCHANGED <<stats, idx>>
  /\ UNCHANGED <<loopFrame, files, tmp_file_path, batch_chunks,
                 response, sink, tmp_files, unlink_calls>>

\* CheckSize rejecting a file whose size equals the ceiling.
CheckSize_ge ==
  /\ pc = "loop"
  /\ idx <= Len(files)
  /\ LET file == files[idx] IN
     IF file.size # 0 /\ file.size >= max_document_size
     THEN /\ stats' = record_failure(stats,
                        size_error_msg(file.filename, max_document_size))
          /\ idx' = idx + 1
          /\ pc' = "loop"
     ELSE /\ pc' = "copy"
          /\ UNCHANGED <<stats, idx>>
  /\ UNCHANGED <<loopFrame, files, tmp_file_path, batch_chunks,
                 response, sink, tmp_files, unlink_calls>>

\* Lines 104-115: the size check at the head of the loop body.
CheckSize ==
  /\ pc = "loop"
  /\ idx <= Len(files)
  /\ LET file == files[idx] IN
     IF file.size # 0 /\ file.size > max_document_size
     THEN /\ stats' = record_failure(stats,
                        size_error_msg(file.filename, max_document_size))
          /\ idx' = idx + 1
          /\ pc' = "loop"
     ELSE /\ pc' = "copy"
          /\ UNCHANGED <<stats, idx>>
  /\ UNCHANGED <<loopFrame, files, tmp_file_path, batch_chunks,
                 response, sink, tmp_files, unlink_calls>>

\* Lines 118-123: the upload is copied into a fresh temporary file. When the
\* copy raises, the file (delete=False) stays and the handler of lines
\* 186-192 records the failure.
CopyUpload ==
  /\ pc = "copy"
  /\ LET file == files[idx]
         path == tmp_path(file.filename, idx)
     IN /\ tmp_files' = tmp_files \cup {path}
        /\ IF file.io = "copy_fails"
           THEN /\ stats' = record_failure(stats,
                              file_error_msg(file.filename, <<"copy failed">>))
                /\ idx' = idx + 1
                /\ pc' = "loop"
                /\ UNCHANGED tmp_file_path
           ELSE /\ tmp_file_path' = path
                /\ pc' = "process"
                /\ UNCHANGED <<stats, idx>>
  /\ UNCHANGED <<loopFrame, files, batch_chunks, response, sink, unlink_calls>>

\* Lines 126-152 and 163-167: process_document, chunk_text and the batch.
ProcessUpload ==
  /\ pc = "process"
  /\ LET file == files[idx]
         result ==
           IF doc_processor = "mock"
           THEN [text |-> MockText, metadata |-> mock_metadata, success |-> TRUE]
           ELSE process_document(tmp_file_path, tmp_entry(tmp_file_path, file),
                                 max_document_size, pypdf)
         chunk_list ==
           IF doc_processor = "mock"
           THEN MockChunks
           ELSE chunk_text(result.text, chunk_size, chunk_overlap)
     IN IF result.success /\ strip(result.text) # <<>>
        THEN /\ batch_chunks' = build_batch(chunk_list, result.metadata, file.filename)
             /\ pc' = "insert"
             /\ UNCHANGED stats
        ELSE /\ stats' = record_failure(stats, extract_error_msg(file.filename))
             /\ pc' = "cleanup"
             /\ UNCHANGED batch_chunks
  /\ UNCHANGED <<loopFrame, files, idx, tmp_file_path, response,
                 sink, tmp_files, unlink_calls>>

\* InsertBatch sending one insert call per chunk.
InsertBatch_per_chunk ==
  /\ pc = "insert"
  /\ LET file == files[idx]
         raised == file.io = "sink_raises"
     IN /\ sink' = sink \o [j \in 1..Len(batch_chunks) |->
                               [vector_db_id |-> VECTOR_DB_ID,
                                chunks |-> <<batch_chunks[j]>>, raised |-> raised]]
        /\ stats' = IF raised
                    THEN record_failure(stats,
                           processing_error_msg(file.filename, <<"insert failed">>))
                    ELSE [stats EXCEPT !.processed_files = @ + 1]
  /\ pc' = "cleanup"
  /\ UNCHANGED <<loopFrame, files, idx, tmp_file_path, batch_chunks,
                 response, tmp_files, unlink_calls>>

\* Lines 155-162 and 169-175: the single insert call and its outcome.
InsertBatch ==
  /\ pc = "insert"
  /\ LET file == files[idx]
         raised == file.io = "sink_raises"
     IN /\ sink' = Append(sink, [vector_db_id |-> VECTOR_DB_ID,
                                 chunks |-> batch_chunks, raised |-> raised])
        /\ stats' = IF raised
                    THEN record_failure(stats,
                           processing_error_msg(file.filename, <<"insert failed">>))
                    ELSE [stats EXCEPT !.processed_files = @ + 1]
  /\ pc' = "cleanup"
  /\ UNCHANGED <<loopFrame, files, idx, tmp_file_path, batch_chunks,
                 response, tmp_files, unlink_calls>>

\* Lines 177-184: the finally block, then the next file.
Cleanup ==
  /\ pc = "cleanup"
  /\ tmp_files' = IF files[idx].io = "unlink_fails"
                  THEN tmp_files
                  ELSE tmp_files \ {tmp_file_path}
  /\ unlink_calls' = unlink_calls \cup {tmp_file_path}
  /\ idx' = idx + 1
  /\ pc' = "loop"
  /\ UNCHANGED <<loopFrame, files, stats, tmp_file_path,
                 batch_chunks, response, sink>>

\* Lines 194-215: the response, once the loop is over.
Respond ==
  /\ pc = "loop"
  /\ idx > Len(files)
  /\ response' = ingest_response(stats, Len(files))
  /\ pc' = "done"
  /\ UNCHANGED <<loopFrame, files, idx, stats, tmp_file_path,
                 batch_chunks, sink, tmp_files, unlink_calls>>

Next ==
  \/ VerifyAdminApiKey
  \/ CheckClient
  \/ CheckRag
  \/ CheckSize
  \/ CopyUpload
  \/ ProcessUpload
  \/ InsertBatch
  \/ Cleanup
  \/ Respond

Init == InitIngest

Spec == Init /\ [][Next]_vars

\* ------------------------------------------------- process_document, alone
\* The directories and file names of the paths tried.
DocDirs == {<<>>, <<"/", "d", "/">>, <<".", ".", "/">>}

DocNames ==
  {<<"r", ".", "p", "d", "f">>, <<"x", ".", "P", "D", "F">>,
   <<"d", ".", "j", "s", "o", "n">>, <<"D", ".", "J", "S", "O", "N">>,
   <<"n", ".", "t", "x", "t">>, <<"n", "o", "e", "x", "t">>,
   <<".", "p", "d", "f">>, <<"a", ".", "p", "d", "f", ".", "t", "x", "t">>,
   <<"v", ".", ".", "t", "x", "t">>}

DocPaths == {dir \o name : dir \in DocDirs, name \in DocNames}

\* [2, 3]
ListJson == JList(<<JLeaf(<<"2">>), JLeaf(<<"3">>)>>)

\* {"title": "T", "e": {}, "l": [[], {"k": "v"}]}
NestedJson ==
  JDict(<< <<<<"t","i","t","l","e">>, JLeaf(<<"T">>)>>,
           <<<<"e">>, JDict(<<>>)>>,
           <<<<"l">>, JList(<<JList(<<>>),
                              JDict(<< <<<<"k">>, JLeaf(<<"v">>)>> >>)>>)>> >>)

\* {"a": "x\ny"}
MultilineJson == JDict(<< <<<<"a">>, JLeaf(<<"x", "\n", "y">>)>> >>)

\* What the files tried hold.
DocBodies ==
  {TextBody(<<"a", ".", " ", "b", " ", "c">>),
   TextBody(<<" ", "\n">>),
   BinaryBody,
   PdfBody(<< <<"a", "b">>, <<"c", ".">> >>, [title |-> <<"T">>, author |-> <<>>]),
   PdfBody(<< <<" ">> >>, [k \in {} |-> <<>>]),
   PdfBodyBadInfo(<< <<"a", "b">> >>),
   PdfBodyBadPage(<< <<"a", "b">> >>, [title |-> <<"T">>]),
   JsonBody(<<"{", "}">>, ExampleJson),
   JsonBody(<<"[", "2", ",", "3", "]">>, ListJson),
   JsonBody(<<"5">>, JLeaf(<<"5">>)),
   JsonBody(<<"{", "}">>, JDict(<<>>)),
   JsonBody(<<"{", "}">>, NestedJson),
   JsonBody(<<"{", "}">>, MultilineJson)}

\* What the file system holds at a path: nothing, a directory, or a regular
\* file of some size.
FsEntries ==
  {[exists |-> FALSE, is_file |-> FALSE, size |-> 0, body |-> TextBody(<<>>)],
   [exists |-> TRUE, is_file |-> FALSE, size |-> 0, body |-> TextBody(<<>>)]}
  \cup {[exists |-> TRUE, is_file |-> TRUE, size |-> size, body |-> body] :
          size \in {1, MaxDocSize + 1}, body \in DocBodies}

InitDoc ==
  /\ text = <<>> /\ chunks = <<>> /\ final_chunks = <<>> /\ cpc = "idle"
  /\ chunk_size = MaxChunkSize
  /\ chunk_overlap = 1
  /\ max_document_size = MaxDocSize
  /\ pypdf \in BOOLEAN
  /\ doc_processor = "real"
  /\ mock_metadata = [k \in {} |-> <<>>]
  /\ IngestIdle
  /\ RequestIdle
  /\ ScoreIdle
  /\ ExtIdle
  /\ file_path \in DocPaths
  /\ fs_entry \in FsEntries
  /\ dpc = "safe_path"
  /\ processor = "none"
  /\ extracted_text = <<>>
  /\ metadata = NoMetadata
  /\ doc_result = Rejected
  /\ opened = <<>>
  /\ caller_chunks = <<>>

docFrame == <<chunkVars, configVars, ingestVars, requestVars, scoreVars,
              extVars, file_path, fs_entry>>

\* Lines 304-309: the security validation.
DocSafePath ==
  /\ dpc = "safe_path"
  /\ IF ~is_safe_path(file_path, fs_entry)
     THEN /\ doc_result' = Rejected
          /\ dpc' = "returned"
     ELSE /\ dpc' = "size"
          /\ UNCHANGED doc_result
  /\ UNCHANGED <<docFrame, processor, extracted_text, metadata, opened,
                 caller_chunks>>

\* Lines 311-318: the file size validation.
DocSizeCheck ==
  /\ dpc = "size"
  /\ IF fs_entry.size > max_document_size
     THEN /\ doc_result' = Rejected
          /\ dpc' = "returned"
     ELSE /\ dpc' = "dispatch"
          /\ UNCHANGED doc_result
  /\ UNCHANGED <<docFrame, processor, extracted_text, metadata, opened,
                 caller_chunks>>

\* Line 325: processor = self.get_processor(str(file_path)).
DocGetProcessor ==
  /\ dpc = "dispatch"
  /\ processor' = get_processor(file_path, pypdf)
  /\ dpc' = "extract_text"
  /\ UNCHANGED <<docFrame, extracted_text, metadata, doc_result, opened,
                 caller_chunks>>

\* DocExtractText giving up on the document when the extractor has no text.
DocExtractText_stop_on_failure ==
  /\ dpc = "extract_text"
  /\ IF processor = "none"
     THEN /\ opened' = Append(opened, "read")
          /\ IF fs_entry.body.utf8
             THEN /\ extracted_text' = fs_entry.body.raw
                  /\ metadata' = [file_extension |-> suffix(basename(file_path)),
                                  processing_method |-> <<"direct_file_read">>,
                                  processor |-> <<"none">>]
                  /\ dpc' = "check_text"
                  /\ UNCHANGED doc_result
             ELSE /\ doc_result' = Rejected
                  /\ dpc' = "returned"
                  /\ UNCHANGED <<extracted_text, metadata>>
     ELSE /\ opened' = Append(opened, "extract_text")
          /\ extracted_text' = IF processor = "PDFProcessor"
                               THEN pdf_extract_text(fs_entry.body)
                               ELSE json_extract_text(fs_entry.body)
          /\ IF extracted_text' = <<>>
             THEN /\ doc_result' = Rejected
                  /\ dpc' = "returned"
             ELSE /\ dpc' = "extract_metadata"
                  /\ UNCHANGED doc_result
          /\ UNCHANGED metadata
  /\ UNCHANGED <<docFrame, processor, caller_chunks>>

\* Line 328, the extractor's extract_text, or lines 335-345, the direct read
\* of a file no extractor matches.
DocExtractText ==
  /\ dpc = "extract_text"
  /\ IF processor = "none"
     THEN /\ opened' = Append(opened, "read")
          /\ IF fs_entry.body.utf8
             THEN /\ extracted_text' = fs_entry.body.raw
                  /\ metadata' = [file_extension |-> suffix(basename(file_path)),
                                  processing_method |-> <<"direct_file_read">>,
                                  processor |-> <<"none">>]
                  /\ dpc' = "check_text"
                  /\ UNCHANGED doc_result
             ELSE /\ doc_result' = Rejected
                  /\ dpc' = "returned"
                  /\ UNCHANGED <<extracted_text, metadata>>
     ELSE /\ opened' = Append(opened, "extract_text")
          /\ extracted_text' = IF processor = "PDFProcessor"
                               THEN pdf_extract_text(fs_entry.body)
                               ELSE json_extract_text(fs_entry.body)
          /\ dpc' = "extract_metadata"
          /\ UNCHANGED <<metadata, doc_result>>
  /\ UNCHANGED <<docFrame, processor, caller_chunks>>

\* Line 329: the extractor's extract_metadata.
DocExtractMetadata ==
  /\ dpc = "extract_metadata"
  /\ opened' = Append(opened, "extract_metadata")
  /\ metadata' = IF processor = "PDFProcessor"
                 THEN pdf_extract_metadata(fs_entry.body, pypdf)
                 ELSE json_extract_metadata(fs_entry.body)
  /\ dpc' = "check_text"
  /\ UNCHANGED <<docFrame, processor, extracted_text, doc_result, caller_chunks>>

\* Lines 347-354: the non-empty check and the return.
DocReturn ==
  /\ dpc = "check_text"
  /\ doc_result' = IF strip(extracted_text) = <<>> THEN Rejected
                   ELSE [text |-> extracted_text, metadata |-> metadata,
                         success |-> TRUE]
  /\ dpc' = "returned"
  /\ UNCHANGED <<docFrame, processor, extracted_text, metadata, opened,
                 caller_chunks>>

\* The caller, admin_api.py lines 130-133: the text is chunked only when the
\* call succeeded.
CallerChunk ==
  /\ dpc = "returned"
  /\ IF doc_result.success /\ strip(doc_result.text) # <<>>
     THEN /\ caller_chunks' = chunk_text(doc_result.text, chunk_size, chunk_overlap)
          /\ dpc' = "chunked"
     ELSE /\ dpc' = "failed"
          /\ UNCHANGED caller_chunks
  /\ UNCHANGED <<docFrame, processor, extracted_text, metadata, doc_result, opened>>

NextDoc ==
  \/ DocSafePath
  \/ DocSizeCheck
  \/ DocGetProcessor
  \/ DocExtractText
  \/ DocExtractMetadata
  \/ DocReturn
  \/ CallerChunk

SpecDoc == InitDoc /\ [][NextDoc]_vars

\* ------------------------------------------ correct_pgvector_score, alone
MaxNum == 4
MaxDen == 4

\* The strings tried as a score.
ScoreStrings ==
  {<<"N", "/", "A">>, <<"a", "b", "c">>, <<>>, <<"1", ".", "0">>,
   <<" ", "2", " ">>, <<"-", "5">>, <<"0">>, <<"0", ".", "5">>,
   <<"0", ".", "2", "5">>, <<"i", "n", "f">>, <<"-", "i", "n", "f">>,
   <<"n", "a", "n">>, <<"1", ".", "2", ".", "3">>, <<".">>, <<"-">>}

\* The values tried as a score.
Scores ==
  {PyFloat(Fin(n, d)) : n \in (-MaxNum)..MaxNum, d \in 1..MaxDen}
  \cup {PyInt(n) : n \in (-MaxNum)..MaxNum}
  \cup {PyFloat(Inf), PyFloat(NegInf), PyFloat(NaN), PyBigInt,
        PyBool(TRUE), PyBool(FALSE), PyNone, PyList, PyDict, PyObject}
  \cup {PyStr(str) : str \in ScoreStrings}

InitScore ==
  /\ text = <<>> /\ chunks = <<>> /\ final_chunks = <<>> /\ cpc = "idle"
  /\ chunk_size = MaxChunkSize
  /\ chunk_overlap = 1
  /\ max_document_size = MaxDocSize
  /\ pypdf = TRUE
  /\ doc_processor = "real"
  /\ mock_metadata = [k \in {} |-> <<>>]
  /\ IngestIdle
  /\ RequestIdle
  /\ DocIdle
  /\ ExtIdle
  /\ score \in Scores
  /\ corrected_score = Returned(PyNone)
  /\ spc = "ready"

\* One call of correct_pgvector_score(score) (public_api.py line 278).
CorrectScore ==
  /\ spc = "ready"
  /\ corrected_score' = correct_pgvector_score(score)
  /\ spc' = "returned"
  /\ UNCHANGED <<chunkVars, configVars, ingestVars, requestVars, docVars, score,
                 extVars>>

NextScore == CorrectScore

SpecScore == InitScore /\ [][NextScore]_vars

\* ------------------------------------------- scripts/ingest_documents.py
\* The most entries a directory holds.
MaxDirFiles == 3

\* The document pipeline at rest.
CoreIdle ==
  /\ text = <<>> /\ chunks = <<>> /\ final_chunks = <<>> /\ cpc = "idle"
  /\ chunk_size = MaxChunkSize
  /\ chunk_overlap = 1
  /\ max_document_size = MaxDocSize
  /\ pypdf = TRUE
  /\ doc_processor = "real"
  /\ mock_metadata = EmptyDict
  /\ IngestIdle
  /\ RequestIdle
  /\ DocIdle
  /\ ScoreIdle

\* str.split(","): the pieces between the commas
RECURSIVE split_comma_acc(_, _)
split_comma_acc(s, piece) ==
  IF s = <<>> THEN <<piece>>
  ELSE IF Head(s) = "," THEN <<piece>> \o split_comma_acc(Tail(s), <<>>)
  ELSE split_comma_acc(Tail(s), Append(piece, Head(s)))

split_comma(s) == split_comma_acc(s, <<>>)

\* str.lstrip(".")
RECURSIVE lstrip_dot(_)
lstrip_dot(s) == IF s # <<>> /\ Head(s) = "." THEN lstrip_dot(Tail(s)) ELSE s

\* DocumentIngestionScript._is_safe_path (lines 80-91); `entry` is what the
\* file system answers for the path.
script_is_safe_path(entry) ==
  IF Contains(entry.path, <<".", ".">>) THEN FALSE
  ELSE IF ~entry.exists \/ ~entry.is_file THEN FALSE
  ELSE TRUE

\* DocumentIngestionScript._is_supported_format (lines 93-96)
is_supported_format(path, formats) ==
  LET extension == lstrip_dot(lower(suffix(basename(path)))) IN
  \E i \in 1..Len(formats) : formats[i] = extension

\* The messages of the validation loop (lines 190, 205, 210).
unsafe_path_msg(path) == <<"Unsafe file path: ">> \o path

too_large_msg(path) == <<"File too large: ">> \o path

stat_error_msg(path, e) == <<"File stat error: ">> \o path \o <<": ">> \o e

\* stats after `stats["failed_files"] += 1; stats["errors"].append(...)`
dir_failure(st, error_msg) ==
  [st EXCEPT !.failed_files = @ + 1, !.errors = Append(@, error_msg)]

\* The validation loop counting a file of an unsupported format as failed.
validate_file_unsupported_fails(entry, st, max_file_size, formats) ==
  IF ~entry.is_file THEN [stats |-> st, queued |-> FALSE]
  ELSE LET counted == [st EXCEPT !.total_files = @ + 1] IN
       IF ~script_is_safe_path(entry)
       THEN [stats |-> dir_failure(counted, unsafe_path_msg(entry.path)),
             queued |-> FALSE]
       ELSE IF entry.stat = "raises"
       THEN [stats |-> dir_failure(counted,
                         stat_error_msg(entry.path, <<"stat failed">>)),
             queued |-> FALSE]
       ELSE IF entry.size > max_file_size
       THEN [stats |-> dir_failure(counted, too_large_msg(entry.path)),
             queued |-> FALSE]
       ELSE IF ~is_supported_format(entry.path, formats)
       THEN [stats |-> dir_failure(counted,
                         <<"Unsupported format: ">> \o entry.path),
             queued |-> FALSE]
       ELSE [stats |-> counted, queued |-> TRUE]

\* One turn of the validation loop (lines 182-217): the stats after it and
\* whether the file is appended to valid_files.
validate_file(entry, st, max_file_size, formats) ==
  IF ~entry.is_file THEN [stats |-> st, queued |-> FALSE]
  ELSE LET counted == [st EXCEPT !.total_files = @ + 1] IN
       IF ~script_is_safe_path(entry)
       THEN [stats |-> dir_failure(counted, unsafe_path_msg(entry.path)),
             queued |-> FALSE]
       ELSE IF entry.stat = "raises"
       THEN [stats |-> dir_failure(counted,
                         stat_error_msg(entry.path, <<"stat failed">>)),
             queued |-> FALSE]
       ELSE IF entry.size > max_file_size
       THEN [stats |-> dir_failure(counted, too_large_msg(entry.path)),
             queued |-> FALSE]
       ELSE IF ~is_supported_format(entry.path, formats)
       THEN [stats |-> counted, queued |-> FALSE]
       ELSE [stats |-> counted, queued |-> TRUE]

\* What can happen to one upload: the admin API ingests it, answers 200
\* without having ingested it, answers another status, cannot be reached, or
\* the file cannot be opened.
ApiOutcomes ==
  {"ingested", "not_ingested", "status_error", "request_error", "open_error"}

\* The dict send_file_to_api builds around an error message.
api_failure(error_msg) ==
  [success |-> FALSE, message |-> error_msg, processed_files |-> 0,
   failed_files |-> 1, errors |-> <<error_msg>>]

\* send_file_to_api (lines 98-155)
send_file_to_api(path, outcome) ==
  LET name == basename(path) IN
  CASE outcome = "ingested" ->
         ingest_response([processed_files |-> 1, failed_files |-> 0,
                          errors |-> <<>>], 1)
    [] outcome = "not_ingested" ->
         ingest_response([processed_files |-> 0, failed_files |-> 1,
                          errors |-> <<extract_error_msg(name)>>], 1)
    [] outcome = "status_error" ->
         api_failure(<<"API request failed for ">> \o name
                     \o <<" with status ", "500", ": ", "Internal Server Error">>)
    [] outcome = "request_error" ->
         api_failure(<<"Request failed for ">> \o name
                     \o <<": ", "connection refused">>)
    [] OTHER ->
         api_failure(<<"Unexpected error for ">> \o name
                     \o <<": ", "permission denied">>)

\* The three results of process_directory (lines 160-168, 221-229, 248-257).
not_found_result ==
  [success |-> FALSE, message |-> <<"Directory not found">>,
   processed_files |-> 0, failed_files |-> 0,
   errors |-> << <<"Directory not found">> >>]

no_valid_files_result(st) ==
  [success |-> FALSE, message |-> <<"No valid files found to process">>,
   processed_files |-> 0, failed_files |-> st.failed_files,
   errors |-> st.errors]

\* final_stats leaving the validation failures out.
final_stats_api_only(st, processed, failed, errors) ==
  [success |-> processed > 0, total_files |-> st.total_files,
   processed_files |-> processed, failed_files |-> failed,
   errors |-> errors]

\* final_stats (lines 248-255)
final_stats(st, processed, failed, errors) ==
  [success |-> processed > 0, total_files |-> st.total_files,
   processed_files |-> processed, failed_files |-> failed + st.failed_files,
   errors |-> errors]

\* What rglob("*") lists: regular files of supported and unsupported formats,
\* within and over the size limit, one with ".." in its name, one whose stat
\* fails, one that is gone when it is looked at again, and a sub-directory.
DirFile(path, size) ==
  [path |-> path, is_file |-> TRUE, exists |-> TRUE, stat |-> "ok", size |-> size]

GoodPdfFile == DirFile(<<"d", "/", "a", ".", "p", "d", "f">>, 1)
UpperJsonFile == DirFile(<<"d", "/", "j", ".", "J", "S", "O", "N">>, MaxDocSize)
NotesFile == DirFile(<<"d", "/", "n", ".", "m", "d">>, 1)
VideoFile == DirFile(<<"d", "/", "v", ".", "m", "d">>, MaxDocSize + 1)
DotDotFile == DirFile(<<"d", "/", "x", ".", ".", "m", "d">>, 1)
BigPdfFile == DirFile(<<"d", "/", "e", ".", "p", "d", "f">>, MaxDocSize + 1)
StatFailsFile ==
  [DirFile(<<"d", "/", "f", ".", "p", "d", "f">>, 1) EXCEPT !.stat = "raises"]
VanishedFile ==
  [DirFile(<<"d", "/", "g", ".", "p", "d", "f">>, 1) EXCEPT !.exists = FALSE]
SubDirectory ==
  [path |-> <<"d", "/", "s">>, is_file |-> FALSE, exists |-> TRUE,
   stat |-> "ok", size |-> 0]

DirEntries ==
  {GoodPdfFile, UpperJsonFile, NotesFile, VideoFile, DotDotFile, BigPdfFile,
   StatFailsFile, VanishedFile, SubDirectory}

\* A listing names each path once.
Listings ==
  {<<>>} \cup {fs \in SeqsUpTo(DirEntries, MaxDirFiles) :
                 \A i, j \in 1..Len(fs) : i # j => fs[i] # fs[j]}

Directories ==
  {[exists |-> FALSE, all_files |-> <<>>]}
  \cup {[exists |-> TRUE, all_files |-> fs] : fs \in Listings}

\* The settings of SUPPORTED_FORMATS tried (line 67 gives the default).
SupportedFormatsValues == {Unset, SetTo(<<"p", "d", "f">>)}

DefaultSupportedFormats ==
  <<"p", "d", "f", ",", "j", "s", "o", "n", ",", "t", "x", "t">>

InitDir ==
  /\ CoreIdle
  /\ PairIdle
  /\ QueryIdle
  /\ SseIdle
  /\ StartIdle
  /\ directory \in Directories
  /\ \E v \in SupportedFormatsValues :
       supported_formats = split_comma(getenv(v, DefaultSupportedFormats))
  /\ dir_pc = "start"
  /\ all_idx = 1
  /\ valid_files = <<>>
  /\ dir_stats = EmptyDict
  /\ send_idx = 1
  /\ total_processed = 0
  /\ total_failed = 0
  /\ all_errors = <<>>
  /\ api_log = <<>>
  /\ dir_result = EmptyDict

dirFrame == <<coreVars, queryVars, sseVars, startVars, pairVars, directory,
              supported_formats>>

\* Lines 159-179: the directory is looked up and the stats are set up.
DirStart ==
  /\ dir_pc = "start"
  /\ IF ~directory.exists
     THEN /\ dir_result' = not_found_result
          /\ dir_pc' = "returned"
          /\ UNCHANGED dir_stats
     ELSE /\ dir_stats' = [success |-> TRUE, total_files |-> 0,
                           processed_files |-> 0, failed_files |-> 0,
                           errors |-> <<>>]
          /\ dir_pc' = "validate"
          /\ UNCHANGED dir_result
  /\ UNCHANGED <<dirFrame, all_idx, valid_files, send_idx, total_processed,
                 total_failed, all_errors, api_log>>

\* Lines 182-217: one file of all_files is validated.
DirValidate ==
  /\ dir_pc = "validate"
  /\ all_idx <= Len(directory.all_files)
  /\ LET entry == directory.all_files[all_idx]
         r == validate_file(entry, dir_stats, max_document_size, supported_formats)
     IN /\ dir_stats' = r.stats
        /\ valid_files' = IF r.queued THEN Append(valid_files, entry.path)
                          ELSE valid_files
  /\ all_idx' = all_idx + 1
  /\ UNCHANGED <<dirFrame, dir_pc, send_idx, total_processed, total_failed,
                 all_errors, api_log, dir_result>>

\* Lines 219-234: nothing to send, or the sending loop is set up.
DirQueue ==
  /\ dir_pc = "validate"
  /\ all_idx > Len(directory.all_files)
  /\ IF valid_files = <<>>
     THEN /\ dir_result' = no_valid_files_result(dir_stats)
          /\ dir_pc' = "returned"
          /\ UNCHANGED all_errors
     ELSE /\ all_errors' = dir_stats.errors
          /\ dir_pc' = "send"
          /\ UNCHANGED dir_result
  /\ UNCHANGED <<dirFrame, all_idx, valid_files, dir_stats, send_idx,
                 total_processed, total_failed, api_log>>

\* Lines 236-246: one file of valid_files is sent.
DirSend ==
  /\ dir_pc = "send"
  /\ send_idx <= Len(valid_files)
  /\ \E outcome \in ApiOutcomes :
       LET result == send_file_to_api(valid_files[send_idx], outcome) IN
       /\ total_processed' = total_processed + Get(result, "processed_files", 0)
       /\ total_failed' = total_failed + Get(result, "failed_files", 0)
       /\ all_errors' = all_errors \o Get(result, "errors", <<>>)
       /\ api_log' = Append(api_log, [path |-> valid_files[send_idx],
                                      result |-> result])
  /\ send_idx' = send_idx + 1
  /\ UNCHANGED <<dirFrame, dir_pc, all_idx, valid_files, dir_stats, dir_result>>

\* Lines 248-257: the final statistics.
DirReturn ==
  /\ dir_pc = "send"
  /\ send_idx > Len(valid_files)
  /\ dir_result' = final_stats(dir_stats, total_processed, total_failed, all_errors)
  /\ dir_pc' = "returned"
  /\ UNCHANGED <<dirFrame, all_idx, valid_files, dir_stats, send_idx,
                 total_processed, total_failed, all_errors, api_log>>

NextDir ==
  \/ DirStart
  \/ DirValidate
  \/ DirQueue
  \/ DirSend
  \/ DirReturn

SpecDir == InitDir /\ [][NextDir]_vars

\* ------------------------------------ the vector database and POST /query
\* The most chunks a query returns.
MaxResultChunks == 2

\* The provider initialize_vector_database registers the vector database
\* with (lines 43-78): "none" when the RuntimeError is raised and logged.
find_vector_provider(variable, available) ==
  LET rag_provider == lower(getenv(variable, <<"p", "g", "v", "e", "c", "t", "o", "r">>)) IN
  IF rag_provider = <<"f", "a", "i", "s", "s">>
  THEN (IF "faiss" \in available THEN "faiss" ELSE "none")
  ELSE (IF "pgvector" \in available THEN "pgvector" ELSE "none")

\* `results.scores[i] if i < len(results.scores) else "N/A"`, i from 0
score_at(res, i) ==
  IF i < Len(res.scores) THEN res.scores[i + 1] ELSE PyStr(<<"N", "/", "A">>)

\* `vector_db_provider == "pgvector"` (lines 273-275)
uses_correction(variable) ==
  lower(getenv(variable, <<>>)) = <<"p", "g", "v", "e", "c", "t", "o", "r">>

\* chunk_info (lines 289-293)
chunk_info(i, corrected, file_name) ==
  [chunk_index |-> i + 1, score |-> corrected, source_file_name |-> file_name]

\* The settings of VECTOR_DB_PROVIDER tried.
ProviderValues ==
  {Unset, SetTo(<<"p", "g", "v", "e", "c", "t", "o", "r">>),
   SetTo(<<"P", "G", "V", "e", "c", "t", "o", "r">>),
   SetTo(<<"f", "a", "i", "s", "s">>), SetTo(<<"c", "h", "r", "o", "m", "a">>)}

\* The providers LlamaStack may list.
ProviderLists == {{"faiss", "pgvector"}, {"pgvector"}, {"faiss"}}

\* The scores a vector store returns.
QueryScores ==
  {PyFloat(Fin(1, 2)), PyFloat(Fin(1, 1)), PyFloat(Fin(2, 1)), PyFloat(Inf)}

\* The chunks of a result carry the names of their files.
QueryResults ==
  {[chunks |-> [i \in 1..n |-> <<"f", ToString(i)>>], scores |-> sc] :
     n \in 0..MaxResultChunks,
     sc \in {<<>>} \cup SeqsUpTo(QueryScores, MaxResultChunks)}

InitQuery ==
  /\ CoreIdle
  /\ PairIdle
  /\ DirIdle
  /\ SseIdle
  /\ StartIdle
  /\ VECTOR_DB_PROVIDER \in ProviderValues
  /\ providers \in ProviderLists
  /\ vector_provider = "none"
  /\ results \in {r \in QueryResults : Len(r.scores) <= Len(r.chunks)}
  /\ q_idx = 1
  /\ chunk_metadata_list = <<>>
  /\ correction_calls = <<>>
  /\ query_pc = "startup"

queryFrame == <<coreVars, dirVars, sseVars, startVars, pairVars, VECTOR_DB_PROVIDER,
                providers, results>>

\* boann_server.py lines 38-122: the vector database is registered.
InitializeVectorDatabase ==
  /\ query_pc = "startup"
  /\ vector_provider' = find_vector_provider(VECTOR_DB_PROVIDER, providers)
  /\ query_pc' = "serving"
  /\ UNCHANGED <<queryFrame, q_idx, chunk_metadata_list, correction_calls>>

\* public_api.py lines 244-266: the vector store is queried; the call fails
\* when no vector database was registered.
QueryVectorIo ==
  /\ query_pc = "serving"
  /\ query_pc' = IF vector_provider = "none" THEN "failed" ELSE "loop"
  /\ UNCHANGED <<queryFrame, vector_provider, q_idx, chunk_metadata_list,
                 correction_calls>>

\* Lines 268-294: one chunk of the result is reported.
QueryChunk ==
  /\ query_pc = "loop"
  /\ q_idx <= Len(results.chunks)
  /\ LET i == q_idx - 1
         raw == score_at(results, i)
     IN IF uses_correction(VECTOR_DB_PROVIDER)
        THEN /\ correction_calls' = Append(correction_calls, q_idx)
             /\ IF correct_pgvector_score(raw).raised = "none"
                THEN /\ chunk_metadata_list' =
                          Append(chunk_metadata_list,
                                 chunk_info(i, correct_pgvector_score(raw).value,
                                            results.chunks[q_idx]))
                     /\ q_idx' = q_idx + 1
                     /\ UNCHANGED query_pc
                ELSE /\ query_pc' = "failed"
                     /\ UNCHANGED <<chunk_metadata_list, q_idx>>
        ELSE /\ chunk_metadata_list' =
                  Append(chunk_metadata_list,
                         chunk_info(i, raw, results.chunks[q_idx]))
             /\ q_idx' = q_idx + 1
             /\ UNCHANGED <<query_pc, correction_calls>>
  /\ UNCHANGED <<queryFrame, vector_provider>>

\* Line 296: the loop over the chunks is over.
QueryCollected ==
  /\ query_pc = "loop"
  /\ q_idx > Len(results.chunks)
  /\ query_pc' = "collected"
  /\ UNCHANGED <<queryFrame, vector_provider, q_idx, chunk_metadata_list,
                 correction_calls>>

NextQuery ==
  \/ InitializeVectorDatabase
  \/ QueryVectorIo
  \/ QueryChunk
  \/ QueryCollected

SpecQuery == InitQuery /\ [][NextQuery]_vars

\* ------------------------------------------------------ create_sse_stream
\* The most chunks the agent output holds.
MaxAgentChunks == 3

\* The chunks of an agent output: a step progress with a text delta, one
\* with an empty delta, a completed turn with its message, a chunk of another
\* shape, and the place where the iteration raises.
AgentChunks ==
  {[kind |-> "delta", content |-> <<"a">>],
   [kind |-> "delta", content |-> <<>>],
   [kind |-> "turn", content |-> <<"b">>],
   [kind |-> "other", content |-> <<>>],
   [kind |-> "raise", content |-> <<"boom">>]}

\* What agent.create_turn may return: a coroutine giving an async generator,
\* a coroutine that raises, an async generator, a generator, something that
\* cannot be iterated.
AgentOutputKinds ==
  {"coroutine", "coroutine_raises", "async_generator", "generator", "object"}

AgentOutputs ==
  {[kind |-> k, items |-> items] :
     k \in AgentOutputKinds,
     items \in {<<>>} \cup SeqsUpTo(AgentChunks, MaxAgentChunks)}

\* The chunk_metadata_list a query hands over: empty without RAG chunks.
ChunkMetadataLists ==
  {[i \in 1..n |-> chunk_info(i - 1, PyFloat(Fin(1, 2)), <<"f", ToString(i)>>)] :
     n \in 0..MaxResultChunks}

\* `content` of lines 136-155 and 165-184: the delta text, the message of a
\* completed turn, None otherwise.
chunk_content(chunk) ==
  IF chunk.kind \in {"delta", "turn"} THEN chunk.content ELSE <<>>

\* The events.
token_event(content) == [type |-> "token", content |-> content]

metadata_event(rag_chunks) ==
  [type |-> "metadata", content |-> rag_chunks, total_chunks |-> Len(rag_chunks)]

error_event(e) == [type |-> "error", content |-> e]

done_event == [type |-> "[DONE]"]

InitSse ==
  /\ CoreIdle
  /\ PairIdle
  /\ DirIdle
  /\ StartIdle
  /\ VECTOR_DB_PROVIDER = Unset
  /\ providers = {}
  /\ vector_provider = "none"
  /\ results = [chunks |-> <<>>, scores |-> <<>>]
  /\ q_idx = 1
  /\ chunk_metadata_list \in ChunkMetadataLists
  /\ correction_calls = <<>>
  /\ query_pc = "idle"
  /\ agent_output \in AgentOutputs
  /\ sse_pc = "start"
  /\ sse_idx = 1
  /\ stream = <<>>

sseFrame == <<coreVars, dirVars, queryVars, startVars, pairVars, agent_output>>

\* Lines 128-132: a coroutine is awaited, and the shape of the output decides
\* how it is iterated.
SseAwait ==
  /\ sse_pc = "start"
  /\ sse_pc' = CASE agent_output.kind = "coroutine_raises" -> "error"
                 [] agent_output.kind = "object" -> "metadata"
                 [] OTHER -> "iterate"
  /\ UNCHANGED <<sseFrame, sse_idx, stream>>

\* Lines 133-159 and 161-190: one chunk of the agent output.
SseChunk ==
  /\ sse_pc = "iterate"
  /\ sse_idx <= Len(agent_output.items)
  /\ LET chunk == agent_output.items[sse_idx] IN
     IF chunk.kind = "raise"
     THEN /\ sse_pc' = "error"
          /\ UNCHANGED <<sse_idx, stream>>
     ELSE /\ stream' = IF chunk_content(chunk) # <<>>
                       THEN Append(stream, token_event(chunk_content(chunk)))
                       ELSE stream
          /\ sse_idx' = sse_idx + 1
          /\ UNCHANGED sse_pc
  /\ UNCHANGED sseFrame

\* The agent output is exhausted.
SseExhausted ==
  /\ sse_pc = "iterate"
  /\ sse_idx > Len(agent_output.items)
  /\ sse_pc' = "metadata"
  /\ UNCHANGED <<sseFrame, sse_idx, stream>>

\* Lines 192-201: the metadata event.
SseMetadata ==
  /\ sse_pc = "metadata"
  /\ stream' = IF chunk_metadata_list # <<>>
               THEN Append(stream, metadata_event(chunk_metadata_list))
               ELSE stream
  /\ sse_pc' = "completion"
  /\ UNCHANGED <<sseFrame, sse_idx>>

\* Lines 203-204: the completion signal.
SseDone ==
  /\ sse_pc = "completion"
  /\ stream' = Append(stream, done_event)
  /\ sse_pc' = "closed"
  /\ UNCHANGED <<sseFrame, sse_idx>>

\* The handler closing the stream right after the error event.
SseError_no_done ==
  /\ sse_pc = "error"
  /\ stream' = Append(stream, error_event(<<"boom">>))
  /\ sse_pc' = "closed"
  /\ UNCHANGED <<sseFrame, sse_idx>>

\* Lines 205-209: the exception handler yields the error event.
SseError ==
  /\ sse_pc = "error"
  /\ stream' = Append(stream, error_event(<<"boom">>))
  /\ sse_pc' = "error_completion"
  /\ UNCHANGED <<sseFrame, sse_idx>>

\* Line 210: the completion signal of the exception handler.
SseErrorDone ==
  /\ sse_pc = "error_completion"
  /\ stream' = Append(stream, done_event)
  /\ sse_pc' = "closed"
  /\ UNCHANGED <<sseFrame, sse_idx>>

NextSse ==
  \/ SseAwait
  \/ SseChunk
  \/ SseExhausted
  \/ SseMetadata
  \/ SseDone
  \/ SseError
  \/ SseErrorDone

SpecSse == InitSse /\ [][NextSse]_vars

\* ------------------------------------------------ scripts/start_boann.py
\* The health checks that fit into llamastack_startup_timeout.
MaxHealthChecks == 2

\* The signals delivered to the script.
MaxSignals == 2

\* What the start-up meets: nothing wrong, a pgvector variable missing, no
\* config file, a Popen of LlamaStack that raises, a Popen of Boann that
\* raises.
Prerequisites ==
  {"ok", "env_missing", "config_missing", "llamastack_popen_fails",
   "boann_popen_fails"}

\* main() is in wait_for_llamastack_health.
Waiting == start_pc \in {"wait_loop", "wait_request"}

InitStart ==
  /\ CoreIdle
  /\ PairIdle
  /\ DirIdle
  /\ QueryIdle
  /\ SseIdle
  /\ prerequisites \in Prerequisites
  /\ start_pc = "checks"
  /\ llamastack_process = "none"
  /\ boann_process = "none"
  /\ shutdown_requested = FALSE
  /\ health_reply = "none"
  /\ elapsed = 0
  /\ signals = 0
  /\ events = <<>>

startFrame == <<coreVars, dirVars, queryVars, sseVars, pairVars, prerequisites>>

\* Lines 276-281: the two checks; sys.exit(1) runs the finally clause.
CheckPrerequisites ==
  /\ start_pc = "checks"
  /\ start_pc' = IF prerequisites \in {"env_missing", "config_missing"}
                 THEN "finally_boann"
                 ELSE "start_llamastack"
  /\ UNCHANGED <<startFrame, llamastack_process, boann_process,
                 shutdown_requested, health_reply, elapsed, signals, events>>

\* Lines 283-285 and start_llamastack_server (138-170).
StartLlamastack ==
  /\ start_pc = "start_llamastack"
  /\ IF prerequisites = "llamastack_popen_fails"
     THEN /\ start_pc' = "finally_boann"
          /\ UNCHANGED <<llamastack_process, events>>
     ELSE /\ llamastack_process' = "running"
          /\ events' = Append(events, "start_llamastack")
          /\ start_pc' = "wait_loop"
  /\ UNCHANGED <<startFrame, boann_process, shutdown_requested, health_reply,
                 elapsed, signals>>

\* Lines 110-119: the loop test, the shutdown test, and the health request
\* is sent. A False goes to lines 288-291.
WaitLoop ==
  /\ start_pc = "wait_loop"
  /\ IF elapsed >= MaxHealthChecks
     THEN /\ start_pc' = "shutdown_boann"
          /\ events' = Append(events, "health_timeout")
     ELSE IF shutdown_requested
     THEN /\ start_pc' = "shutdown_boann"
          /\ UNCHANGED events
     ELSE /\ start_pc' = "wait_request"
          /\ UNCHANGED events
  /\ health_reply' = "none"
  /\ UNCHANGED <<startFrame, llamastack_process, boann_process,
                 shutdown_requested, elapsed, signals>>

\* LlamaStack answers the health request, or the connection fails.
HealthReply ==
  /\ start_pc = "wait_request"
  /\ health_reply = "none"
  /\ health_reply' \in (IF llamastack_process = "running"
                        THEN {"200", "503", "connect_error"}
                        ELSE {"connect_error"})
  /\ UNCHANGED <<startFrame, start_pc, llamastack_process, boann_process,
                 shutdown_requested, elapsed, signals, events>>

\* Lines 119-131: the answer is read: True on 200, otherwise the sleep and
\* the next round.
HealthResponse ==
  /\ start_pc = "wait_request"
  /\ health_reply # "none"
  /\ IF health_reply = "200"
     THEN /\ start_pc' = "start_boann"
          /\ events' = Append(events, "healthy")
          /\ UNCHANGED elapsed
     ELSE /\ start_pc' = "wait_loop"
          /\ elapsed' = elapsed + 1
          /\ UNCHANGED events
  /\ health_reply' = "none"
  /\ UNCHANGED <<startFrame, llamastack_process, boann_process,
                 shutdown_requested, signals>>

\* Lines 293-297 and start_boann_server (172-205).
StartBoann ==
  /\ start_pc = "start_boann"
  /\ IF prerequisites = "boann_popen_fails"
     THEN /\ start_pc' = "shutdown_boann"
          /\ UNCHANGED <<boann_process, events>>
     ELSE /\ boann_process' = "running"
          /\ events' = Append(events, "start_boann")
          /\ start_pc' = "monitor"
  /\ UNCHANGED <<startFrame, llamastack_process, shutdown_requested,
                 health_reply, elapsed, signals>>

\* Lines 207-242: monitor_processes returns once LlamaStack has exited or a
\* shutdown was requested.
Monitor ==
  /\ start_pc = "monitor"
  /\ llamastack_process # "running" \/ shutdown_requested
  /\ start_pc' = "finally_boann"
  /\ UNCHANGED <<startFrame, llamastack_process, boann_process,
                 shutdown_requested, health_reply, elapsed, signals, events>>

\* The LlamaStack process exits on its own.
LlamastackExits ==
  /\ start_pc \notin {"idle", "exited"}
  /\ llamastack_process = "running"
  /\ llamastack_process' = "exited"
  /\ events' = Append(events, "llamastack_exits")
  /\ UNCHANGED <<startFrame, start_pc, boann_process, shutdown_requested,
                 health_reply, elapsed, signals>>

\* shutdown() on the processes as they are (lines 244-268): the events it
\* adds.
shutdown_events(boann, llamastack) ==
  (IF boann # "none" THEN <<"terminate_boann">> ELSE <<>>)
  \o (IF llamastack # "none" THEN <<"terminate_llamastack">> ELSE <<>>)

\* Lines 248-255: shutdown() terminates Boann.
ShutdownBoann ==
  /\ start_pc \in {"shutdown_boann", "finally_boann"}
  /\ events' = events \o shutdown_events(boann_process, "none")
  /\ boann_process' = IF boann_process # "none" THEN "exited" ELSE "none"
  /\ start_pc' = IF start_pc = "shutdown_boann" THEN "shutdown_llamastack"
                 ELSE "finally_llamastack"
  /\ UNCHANGED <<startFrame, llamastack_process, shutdown_requested,
                 health_reply, elapsed, signals>>

\* Lines 257-266: shutdown() terminates LlamaStack; sys.exit(1) after it runs
\* the finally clause, which calls shutdown() again.
ShutdownLlamastack ==
  /\ start_pc \in {"shutdown_llamastack", "finally_llamastack"}
  /\ events' = events \o shutdown_events("none", llamastack_process)
  /\ llamastack_process' = IF llamastack_process # "none" THEN "exited"
                           ELSE "none"
  /\ start_pc' = IF start_pc = "shutdown_llamastack" THEN "finally_boann"
                 ELSE "exited"
  /\ UNCHANGED <<startFrame, boann_process, shutdown_requested, health_reply,
                 elapsed, signals>>

\* _signal_handler (lines 51-55): it runs to its end between two steps of
\* main(), sets the flag and calls shutdown().
SignalHandler ==
  /\ start_pc \notin {"idle", "exited"}
  /\ signals < MaxSignals
  /\ signals' = signals + 1
  /\ shutdown_requested' = TRUE
  /\ events' = events
               \o <<IF Waiting THEN "signal_while_waiting" ELSE "signal">>
               \o shutdown_events(boann_process, llamastack_process)
  /\ boann_process' = IF boann_process # "none" THEN "exited" ELSE "none"
  /\ llamastack_process' = IF llamastack_process # "none" THEN "exited"
                           ELSE "none"
  /\ UNCHANGED <<startFrame, start_pc, health_reply, elapsed>>

NextStart ==
  \/ CheckPrerequisites
  \/ StartLlamastack
  \/ WaitLoop
  \/ HealthReply
  \/ HealthResponse
  \/ StartBoann
  \/ Monitor
  \/ LlamastackExits
  \/ ShutdownBoann
  \/ ShutdownLlamastack
  \/ SignalHandler

SpecStart == InitStart /\ [][NextStart]_vars

\* ------------------------------------ two ingestion requests at one time
\* admin_api.py lines 95-215 run by two callers whose steps interleave. Each
\* call has its own doc_processor (line 96), stats (line 99), tmp_file_path
\* and batch_chunks; the calls meet in the environment, which they only read,
\* in the temporary directory and in the client of the vector store.
Callers == {1, 2}

\* A second document named like GoodText, from another caller.
SameName == Upload(<<"n", ".", "t", "x", "t">>, 1,
                   TextBody(<<"z", "z", " ", "y">>), "ok")

\* The files of the first and of the second request.
FirstRequests ==
  {<<GoodText>>, <<SinkRaises, GoodText>>, <<GoodPdf, Oversize>>,
   <<CopyFails, GoodText>>}
SecondRequests ==
  {<<GoodJson>>, <<SameName, GoodJson>>, <<Blank, UnlinkFails>>,
   <<DotDot, SameName>>}

\* The locals of a call that has reached the loop of line 102.
NewRequest(uploaded) ==
  [files |-> uploaded, idx |-> 1, pc |-> "loop",
   stats |-> [processed_files |-> 0, failed_files |-> 0, errors |-> <<>>],
   tmp_file_path |-> <<>>, batch_chunks |-> <<>>, response |-> NoResponse]

\* A temporary file named after the upload alone.
NamedTemporaryFile_by_upload(filename, serial) == tmp_path(filename, 0)

\* Lines 118-120: tempfile.NamedTemporaryFile(delete=False, suffix=...) makes
\* a file that did not exist, whoever asks; the serial number stands for the
\* random part of its name.
NamedTemporaryFile(filename, serial) == tmp_path(filename, serial)

\* What the temporary directory holds at a path.
temp_entry(path) ==
  IF path \in DOMAIN temp_dir
  THEN [exists |-> TRUE, is_file |-> TRUE,
        size |-> temp_dir[path].size, body |-> temp_dir[path].body]
  ELSE [exists |-> FALSE, is_file |-> FALSE, size |-> 0, body |-> BinaryBody]

InitPair ==
  /\ CoreIdle
  /\ DirIdle
  /\ QueryIdle
  /\ SseIdle
  /\ StartIdle
  /\ \E first \in FirstRequests, second \in SecondRequests :
       requests = <<NewRequest(first), NewRequest(second)>>
  /\ vector_io = <<>>
  /\ temp_dir = EmptyDict
  /\ temp_serial = 0

pairFrame == <<coreVars, dirVars, queryVars, sseVars, startVars>>

\* Lines 104-115 in the call r.
CheckSizeOf(r) ==
  /\ requests[r].pc = "loop"
  /\ requests[r].idx <= Len(requests[r].files)
  /\ LET rq == requests[r]
         file == rq.files[rq.idx]
     IN requests' =
          [requests EXCEPT ![r] =
             IF file.size # 0 /\ file.size > max_document_size
             THEN [rq EXCEPT !.stats = record_failure(rq.stats,
                               size_error_msg(file.filename, max_document_size)),
                             !.idx = rq.idx + 1]
             ELSE [rq EXCEPT !.pc = "copy"]]
  /\ UNCHANGED <<pairFrame, vector_io, temp_dir, temp_serial>>

\* Lines 118-123 and 186-192 in the call r.
CopyUploadOf(r) ==
  /\ requests[r].pc = "copy"
  /\ LET rq == requests[r]
         file == rq.files[rq.idx]
         path == NamedTemporaryFile(file.filename, temp_serial)
     IN /\ temp_dir' = Merge(temp_dir, [p \in {path} |->
                               [size |-> file.size, body |-> file.body]])
        /\ temp_serial' = temp_serial + 1
        /\ requests' =
             [requests EXCEPT ![r] =
                IF file.io = "copy_fails"
                THEN [rq EXCEPT !.stats = record_failure(rq.stats,
                                  file_error_msg(file.filename, <<"copy failed">>)),
                                !.idx = rq.idx + 1, !.pc = "loop"]
                ELSE [rq EXCEPT !.tmp_file_path = path, !.pc = "process"]]
  /\ UNCHANGED <<pairFrame, vector_io>>

\* Lines 126-152 and 163-167 in the call r.
ProcessUploadOf(r) ==
  /\ requests[r].pc = "process"
  /\ LET rq == requests[r]
         file == rq.files[rq.idx]
         result == process_document(rq.tmp_file_path, temp_entry(rq.tmp_file_path),
                                    max_document_size, pypdf)
         chunk_list == chunk_text(result.text, chunk_size, chunk_overlap)
     IN requests' =
          [requests EXCEPT ![r] =
             IF result.success /\ strip(result.text) # <<>>
             THEN [rq EXCEPT !.batch_chunks =
                               build_batch(chunk_list, result.metadata, file.filename),
                             !.pc = "insert"]
             ELSE [rq EXCEPT !.stats = record_failure(rq.stats,
                               extract_error_msg(file.filename)),
                             !.pc = "cleanup"]]
  /\ UNCHANGED <<pairFrame, vector_io, temp_dir, temp_serial>>

\* Lines 155-162 and 169-175 in the call r.
InsertBatchOf(r) ==
  /\ requests[r].pc = "insert"
  /\ LET rq == requests[r]
         file == rq.files[rq.idx]
         raised == file.io = "sink_raises"
     IN /\ vector_io' = Append(vector_io,
                          [caller |-> r, vector_db_id |-> VECTOR_DB_ID,
                           chunks |-> rq.batch_chunks, raised |-> raised])
        /\ requests' =
             [requests EXCEPT ![r] =
                [rq EXCEPT !.stats =
                             IF raised
                             THEN record_failure(rq.stats,
                                    processing_error_msg(file.filename,
                                                         <<"insert failed">>))
                             ELSE [rq.stats EXCEPT !.processed_files = @ + 1],
                           !.pc = "cleanup"]]
  /\ UNCHANGED <<pairFrame, temp_dir, temp_serial>>

\* Lines 177-184 in the call r.
CleanupOf(r) ==
  /\ requests[r].pc = "cleanup"
  /\ LET rq == requests[r]
         kept == IF rq.files[rq.idx].io = "unlink_fails"
                 THEN DOMAIN temp_dir
                 ELSE DOMAIN temp_dir \ {rq.tmp_file_path}
     IN /\ temp_dir' = [p \in kept |-> temp_dir[p]]
        /\ requests' = [requests EXCEPT ![r] =
                          [rq EXCEPT !.idx = rq.idx + 1, !.pc = "loop"]]
  /\ UNCHANGED <<pairFrame, vector_io, temp_serial>>

\* Lines 194-215 in the call r.
RespondOf(r) ==
  /\ requests[r].pc = "loop"
  /\ requests[r].idx > Len(requests[r].files)
  /\ LET rq == requests[r]
     IN requests' = [requests EXCEPT ![r] =
                       [rq EXCEPT !.response =
                                    ingest_response(rq.stats, Len(rq.files)),
                                  !.pc = "done"]]
  /\ UNCHANGED <<pairFrame, vector_io, temp_dir, temp_serial>>

NextPair ==
  \/ \E r \in Callers : CheckSizeOf(r)
  \/ \E r \in Callers : CopyUploadOf(r)
  \/ \E r \in Callers : ProcessUploadOf(r)
  \/ \E r \in Callers : InsertBatchOf(r)
  \/ \E r \in Callers : CleanupOf(r)
  \/ \E r \in Callers : RespondOf(r)

SpecPair == InitPair /\ [][NextPair]_vars

\* ------------------------------------------------- vocabulary of the claims
Range(seq) == {seq[i] : i \in 1..Len(seq)}

IsPrefix(p, s) == Len(p) <= Len(s) /\ SubSeq(s, 1, Len(p)) = p

RECURSIVE SumLen(_)
SumLen(seq) == IF seq = <<>> THEN 0 ELSE Len(Head(seq)) + SumLen(Tail(seq))

\* A non-empty string without whitespace.
IsWord(s) == s # <<>> /\ \A i \in 1..Len(s) : s[i] \notin Whitespace

\* The whitespace-normalized form of a text, said without the code's regular
\* expression: its words joined by single spaces.
Normalized(t) == join(split(t))

\* ------------------------------------------------------------------ C1
\* C1: every returned chunk is at most chunk_size long, unless it is a single
\* whitespace-free word longer than chunk_size taken whole from the chunk that
\* was re-split; and every word of the text longer than chunk_size is returned
\* whole as a chunk of its own.
C1_ChunkBound ==
  cpc = "returned" =>
    /\ \A i \in 1..Len(final_chunks) :
         \/ Len(final_chunks[i]) <= chunk_size
         \/ /\ IsWord(final_chunks[i])
            /\ \E j \in 1..Len(chunks) : final_chunks[i] \in Range(split(chunks[j]))
    /\ \A w \in Range(split(text)) :
         Len(w) > chunk_size => w \in Range(final_chunks)

\* A long word was emitted as its own oversized chunk next to other chunks.
C1_Witness ==
  /\ cpc = "returned"
  /\ Len(final_chunks) > 1
  /\ \E i \in 1..Len(final_chunks) : Len(final_chunks[i]) > chunk_size
  /\ \E i \in 1..Len(final_chunks) : Len(final_chunks[i]) <= chunk_size

\* ------------------------------------------------------------------ C2
\* C2 as stated: with 0 < overlap < chunk_size and more than one chunk, every
\* returned chunk but the first begins with the last `overlap` characters of
\* the chunk returned before it.
C2_Original ==
  (cpc = "returned" /\ 0 < chunk_overlap /\ chunk_overlap < chunk_size
     /\ Len(final_chunks) > 1) =>
    \A i \in 2..Len(final_chunks) :
      IsPrefix(Tail_n(final_chunks[i-1], chunk_overlap), final_chunks[i])

\* C2 amended: with 0 < overlap < chunk_size, every chunk of the sentence
\* packing pass but the first whose predecessor is longer than `overlap`
\* begins with the last `overlap` characters of that predecessor, leading
\* whitespace of the carried tail trimmed; when no chunk of that pass exceeds
\* chunk_size these are the returned chunks.
C2_OverlapCarried ==
  (cpc = "returned" /\ 0 < chunk_overlap /\ chunk_overlap < chunk_size) =>
    /\ \A i \in 2..Len(chunks) :
         Len(chunks[i-1]) > chunk_overlap =>
           IsPrefix(lstrip(Tail_n(chunks[i-1], chunk_overlap)), chunks[i])
    /\ (chunks # <<>> /\ \A i \in 1..Len(chunks) : Len(chunks[i]) <= chunk_size)
         => final_chunks = chunks

\* Returned chunks that carry a tail across a boundary.
C2_Witness ==
  /\ cpc = "returned"
  /\ 0 < chunk_overlap /\ chunk_overlap < chunk_size
  /\ Len(final_chunks) > 1
  /\ final_chunks = chunks
  /\ \E i \in 2..Len(chunks) : Len(chunks[i-1]) > chunk_overlap

\* ------------------------------------------------------------------ C3
\* C3: with overlap = 0, the returned chunks joined by single spaces are the
\* whitespace-normalized text.
C3_JoinRoundTrip ==
  (cpc = "returned" /\ chunk_overlap = 0) => join(final_chunks) = Normalized(text)

\* A text that needed normalizing, split into several chunks, one of them
\* re-split on words.
C3_Witness ==
  /\ cpc = "returned"
  /\ chunk_overlap = 0
  /\ Len(final_chunks) > Len(chunks)
  /\ Len(chunks) > 1
  /\ text # Normalized(text)

\* ------------------------------------------------------------------ C4
\* C4 as stated: with overlap > 0 the chunk lengths sum to at least the length
\* of the original text.
C4_Original ==
  (cpc = "returned" /\ chunk_overlap > 0) => SumLen(final_chunks) >= Len(text)

\* C4 amended: with overlap > 0 the chunk lengths, plus one for each boundary
\* between consecutive chunks, sum to at least the length of the
\* whitespace-normalized text.
C4_SumCoversNormalized ==
  (cpc = "returned" /\ chunk_overlap > 0) =>
    SumLen(final_chunks) + (IF final_chunks = <<>> THEN 0 ELSE Len(final_chunks) - 1)
      >= Len(Normalized(text))

\* The overlap duplicated content: the chunks sum to more than the text.
C4_Witness ==
  /\ cpc = "returned"
  /\ chunk_overlap > 0
  /\ Len(final_chunks) > 1
  /\ SumLen(final_chunks) > Len(Normalized(text))

\* ------------------------------------------------------------------ C5
\* C5: a text no longer than chunk_size comes back as exactly one chunk, its
\* whitespace-normalized form, whatever the overlap; a blank text comes back
\* as the empty list.
C5_ShortText ==
  (cpc = "returned" /\ Len(text) <= chunk_size) =>
    IF strip(text) = <<>>
    THEN final_chunks = <<>>
    ELSE final_chunks = <<Normalized(text)>>

\* A short text whose single chunk differs from it by normalization.
C5_Witness ==
  /\ cpc = "returned"
  /\ Len(text) <= chunk_size
  /\ Len(final_chunks) = 1
  /\ final_chunks[1] # text

\* ------------------------------------- vocabulary of the ingestion claims
\* What extraction yields for the upload at position n, taken on its own.
extraction_of(file, n) ==
  IF doc_processor = "mock"
  THEN [text |-> MockText, metadata |-> mock_metadata, success |-> TRUE]
  ELSE process_document(tmp_path(file.filename, n),
                        [exists |-> TRUE, is_file |-> TRUE,
                         size |-> file.size, body |-> file.body],
                        max_document_size, pypdf)

\* The chunks of that upload, in source-text order.
chunks_of(file, n) ==
  IF doc_processor = "mock"
  THEN MockChunks
  ELSE chunk_text(extraction_of(file, n).text, chunk_size, chunk_overlap)

\* The upload, on its own, gets as far as the sink.
ReachesSink(file, n) ==
  /\ file.size <= max_document_size
  /\ file.io # "copy_fails"
  /\ extraction_of(file, n).success

\* The upload, on its own, is a failure.
FailsAlone(file, n) == ~ReachesSink(file, n) \/ file.io = "sink_raises"

\* The number of files whose outcome has been counted in stats.
Counted == IF pc \in {"cleanup"} THEN idx ELSE idx - 1

\* The chunk contents one insert call carried.
contents(call) == [j \in 1..Len(call.chunks) |-> call.chunks[j].content]

\* The contents of the insert calls that files 1..n give rise to, one by one.
RECURSIVE expected_calls(_)
expected_calls(n) ==
  IF n = 0 THEN <<>>
  ELSE expected_calls(n - 1) \o
       (IF ReachesSink(files[n], n) THEN <<chunks_of(files[n], n)>> ELSE <<>>)

OverrideKeys == {"chunk_index", "total_chunks", "file_name", "document_id", "chunk_id"}

\* ------------------------------------------------------------------ C6
\* C6: the sink receives a document's chunks in one insert call carrying all
\* of them in chunk order, or receives no call for it; there is one call per
\* document that got as far as the sink, and a document is counted as
\* processed only when its call returned.
C6_AtomicBatch ==
  /\ \A k \in 1..Len(sink) :
       /\ sink[k].chunks # <<>>
       /\ \E i \in 1..Len(files) :
            ReachesSink(files[i], i) /\ contents(sink[k]) = chunks_of(files[i], i)
  /\ Len(sink) = Cardinality({i \in 1..Counted : ReachesSink(files[i], i)})
  /\ stats.processed_files = Cardinality({k \in 1..Len(sink) : ~sink[k].raised})

\* A run in which one document's insert raised and another's multi-chunk
\* batch was stored.
C6_Witness ==
  /\ pc = "done"
  /\ \E k \in 1..Len(sink) : sink[k].raised
  /\ \E k \in 1..Len(sink) : ~sink[k].raised /\ Len(sink[k].chunks) > 1
  /\ stats.failed_files > 0

\* ------------------------------------------------------------------ C7
\* C7: whatever fails before it, each document is handled as it would be on
\* its own: the insert calls are those of the documents that reach the sink,
\* in order, every failing document adds one to failed_files and one error
\* string, and the loop ends only after the last file.
C7_FailureIsolation ==
  /\ [k \in 1..Len(sink) |-> contents(sink[k])] = expected_calls(Counted)
  /\ stats.failed_files = Cardinality({i \in 1..Counted : FailsAlone(files[i], i)})
  /\ stats.processed_files = Cardinality({i \in 1..Counted : ~FailsAlone(files[i], i)})
  /\ Len(stats.errors) = stats.failed_files
  /\ pc = "done" => Counted = Len(files)

\* A finished run whose first document failed and whose last was ingested.
C7_Witness ==
  /\ pc = "done"
  /\ Len(files) > 1
  /\ FailsAlone(files[1], 1)
  /\ ~FailsAlone(files[Len(files)], Len(files))
  /\ stats.processed_files > 0 /\ stats.failed_files > 0

\* ------------------------------------------------------------------ C8
\* An error string that speaks of the size limit.
IsSizeError(msg) == \E j \in 1..Len(msg) : msg[j] = " exceeds maximum size ("

\* C8: a document larger than max_document_size never gets past the size
\* check (no temporary file, no chunking, no insert), is counted as failed
\* with a size error that names it, and the other documents are processed; a
\* document exactly at the ceiling is accepted.
C8_OversizeRejected ==
  /\ pc \in {"copy", "process", "insert", "cleanup"} =>
       files[idx].size <= max_document_size
  /\ \A i \in 1..Counted :
       files[i].size > max_document_size =>
         \E k \in 1..Len(stats.errors) :
           /\ IsSizeError(stats.errors[k])
           /\ Contains(stats.errors[k], files[i].filename)
  /\ Cardinality({k \in 1..Len(stats.errors) : IsSizeError(stats.errors[k])})
       = Cardinality({i \in 1..Counted : files[i].size > max_document_size})
  /\ pc = "done" =>
       /\ response.failed_files >=
            Cardinality({i \in 1..Len(files) : files[i].size > max_document_size})
       /\ response.processed_files =
            Cardinality({i \in 1..Len(files) :
                           /\ files[i].size <= max_document_size
                           /\ files[i].io \notin {"copy_fails", "sink_raises"}
                           /\ extraction_of(files[i], i).success})

\* Three documents, the second oversize, one exactly at the ceiling: two
\* processed, one failed.
C8_Witness ==
  /\ pc = "done"
  /\ Len(files) = 3
  /\ files[2].size > max_document_size
  /\ \E i \in {1, 3} : files[i].size = max_document_size
  /\ response.processed_files = 2
  /\ response.failed_files = 1
  /\ Len(sink) = 2

\* ------------------------------------------------------------------ C9
\* The batches built so far: those the sink received and the one at hand.
Batches ==
  {sink[k].chunks : k \in 1..Len(sink)} \cup
  (IF pc = "insert" THEN {batch_chunks} ELSE {})

\* C9: in a batch of n chunks the record at position i (from 0) has
\* chunk_index = i, total_chunks = n and chunk_id = document_id, "_chunk_", i;
\* the chunk_ids of a batch are pairwise distinct.
C9_ChunkIndices ==
  \A batch \in Batches :
    /\ \A j \in 1..Len(batch) :
         /\ batch[j].metadata.chunk_index = j - 1
         /\ batch[j].metadata.total_chunks = Len(batch)
         /\ batch[j].metadata.chunk_id =
              batch[j].metadata.document_id \o <<"_chunk_", ToString(j - 1)>>
    /\ \A j, k \in 1..Len(batch) :
         j # k => batch[j].metadata.chunk_id # batch[k].metadata.chunk_id

\* A batch of three or more chunks reached the sink.
C9_Witness == \E k \in 1..Len(sink) : Len(sink[k].chunks) >= 3

\* ------------------------------------------------------------------ C10
\* C10 as stated: in the batch built for a file, each of the five keys the
\* handler writes carries the ingestion-time value (document_id the file
\* name, chunk_id built on it) whatever the extractor's mapping holds, and
\* every other key the extractor's value.
C10_Original ==
  pc = "insert" =>
    LET filename == files[idx].filename
        extracted == extraction_of(files[idx], idx).metadata
    IN \A j \in 1..Len(batch_chunks) :
         LET md == batch_chunks[j].metadata IN
         /\ DOMAIN md = (DOMAIN extracted) \cup OverrideKeys
         /\ md.chunk_index = j - 1
         /\ md.total_chunks = Len(batch_chunks)
         /\ md.file_name = filename
         /\ md.document_id = filename
         /\ md.chunk_id = filename \o <<"_chunk_", ToString(j - 1)>>
         /\ \A key \in (DOMAIN extracted) \ OverrideKeys : md[key] = extracted[key]

\* C10 amended: chunk_index, total_chunks and file_name always carry the
\* ingestion-time values; document_id is the extractor's document_id when its
\* mapping has one and the file name otherwise; chunk_id is rebuilt from that
\* document_id and the index, never the extractor's; every other key carries
\* the extractor's value.
C10_OverridesWin ==
  pc = "insert" =>
    LET filename == files[idx].filename
        extracted == extraction_of(files[idx], idx).metadata
    IN \A j \in 1..Len(batch_chunks) :
         LET md == batch_chunks[j].metadata IN
         /\ DOMAIN md = (DOMAIN extracted) \cup OverrideKeys
         /\ md.chunk_index = j - 1
         /\ md.total_chunks = Len(batch_chunks)
         /\ md.file_name = filename
         /\ md.document_id = (IF "document_id" \in DOMAIN extracted
                              THEN extracted.document_id ELSE filename)
         /\ md.chunk_id = md.document_id \o <<"_chunk_", ToString(j - 1)>>
         /\ \A key \in (DOMAIN extracted) \ OverrideKeys : md[key] = extracted[key]

\* A batch built from an extractor mapping that holds all five keys and one
\* more.
C10_Witness ==
  /\ pc = "insert"
  /\ LET extracted == extraction_of(files[idx], idx).metadata IN
     /\ OverrideKeys \subseteq DOMAIN extracted
     /\ (DOMAIN extracted) \ OverrideKeys # {}
     /\ extracted.chunk_index # 0
  /\ Len(batch_chunks) > 1

\* ------------------------------------------- process_document vocabulary
\* The path names a parent-directory sequence.
Traversal == Contains(file_path, <<".", ".">>)

\* The target exists and is a regular file.
RegularFile == fs_entry.exists /\ fs_entry.is_file

\* The call is past the security validation and went on.
PastSafePath ==
  dpc \in {"size", "dispatch", "extract_text", "extract_metadata", "check_text"}

\* The call is past the dispatch of line 325.
Dispatched ==
  dpc \in {"extract_text", "extract_metadata", "check_text"} \/ opened # <<>>

\* The extension of the file, as Path.suffix gives it, in lower case.
Extension == lower(suffix(basename(file_path)))

\* ----------------------------------------------------------------- C11
\* C11: a path holding ".." is rejected whatever the file system holds
\* there, only a path without it whose target is a regular file passes the
\* check, and a document the check rejects is never opened, extracted or
\* chunked.
C11_PathSafety ==
  /\ PastSafePath => ~Traversal /\ RegularFile
  /\ (dpc # "safe_path" /\ (Traversal \/ ~RegularFile)) =>
       /\ dpc \in {"returned", "failed"}
       /\ doc_result = Rejected
       /\ opened = <<>>
       /\ extracted_text = <<>>
       /\ metadata = NoMetadata
       /\ caller_chunks = <<>>
  /\ (dpc = "failed" /\ ~Traversal /\ RegularFile
        /\ fs_entry.size <= max_document_size) => opened # <<>>

\* A regular file of allowed size, reached through "..", has been rejected.
C11_Witness ==
  /\ dpc = "failed"
  /\ Traversal
  /\ RegularFile
  /\ fs_entry.size <= max_document_size
  /\ fs_entry.body.utf8 /\ strip(fs_entry.body.raw) # <<>>

\* ----------------------------------------------------------------- C12
RequiredKeys == {"file_extension", "processing_method", "processor"}

\* C12: once the extractor's extract_metadata, or the direct read, has given
\* the metadata of a document, the mapping has the keys file_extension,
\* processing_method and processor.
C12_RequiredKeys ==
  dpc = "check_text" => RequiredKeys \subseteq DOMAIN metadata

\* ----------------------------------------------------------------- C13
\* The extractor's extract_text fails on the file.
TextExtractionFails ==
  \/ processor = "PDFProcessor" /\ (~fs_entry.body.is_pdf \/ fs_entry.body.text_raises)
  \/ processor = "JSONProcessor" /\ ~fs_entry.body.is_json

\* The extractor's extract_metadata fails on the file.
MetadataExtractionFails ==
  \/ processor = "PDFProcessor" /\ (~fs_entry.body.is_pdf \/ fs_entry.body.info_raises)
  \/ processor = "JSONProcessor" /\ ~fs_entry.body.is_json

\* C13: when extract_metadata fails on a document whose extract_text gave
\* text that is not blank, the call returns success with that text; when
\* extract_text fails, extract_metadata is still called and returns, and the
\* call returns the rejection.
C13_IndependentFailures ==
  /\ (dpc \in {"returned", "chunked", "failed"} /\ opened # <<>>
        /\ processor # "none" /\ MetadataExtractionFails
        /\ strip(extracted_text) # <<>>) =>
       /\ doc_result.success
       /\ doc_result.text = extracted_text
       /\ extracted_text = strip(concat_pages(fs_entry.body.pages))
  /\ (dpc \in {"check_text", "returned", "chunked", "failed"} /\ opened # <<>>
        /\ processor # "none" /\ TextExtractionFails) =>
       /\ opened = <<"extract_text", "extract_metadata">>
       /\ extracted_text = <<>>
       /\ dpc # "check_text" => doc_result = Rejected

\* A PDF whose document information cannot be read has been chunked.
C13_Witness ==
  /\ dpc = "chunked"
  /\ processor = "PDFProcessor"
  /\ fs_entry.body.info_raises
  /\ doc_result.success
  /\ metadata = basic_metadata

\* ----------------------------------------------------------------- C15
\* C15 as stated: the PDF extractor handles exactly the files whose extension
\* is ".pdf" in any case, the JSON extractor exactly the others whose
\* extension is ".json", and no extractor the rest.
C15_Original ==
  Dispatched =>
    /\ processor = "PDFProcessor" <=> Extension = <<".", "p", "d", "f">>
    /\ processor = "JSONProcessor" <=>
         (Extension # <<".", "p", "d", "f">> /\ Extension = <<".", "j", "s", "o", "n">>)
    /\ ~can_process("DocumentProcessor", file_path, pypdf)

\* C15, corrected: the PDF extractor handles exactly the files whose
\* extension is ".pdf" in any case when pypdf was imported, and none
\* otherwise; the JSON extractor handles exactly the files whose extension
\* is ".json" in any case; every other file, a ".pdf" file without pypdf
\* included, goes to the direct read; the base extractor matches no file.
C15_DispatchOrder ==
  Dispatched =>
    /\ processor = "PDFProcessor" <=>
         (pypdf /\ Extension = <<".", "p", "d", "f">>)
    /\ processor = "JSONProcessor" <=> Extension = <<".", "j", "s", "o", "n">>
    /\ processor = "none" <=>
         /\ ~(pypdf /\ Extension = <<".", "p", "d", "f">>)
         /\ Extension # <<".", "j", "s", "o", "n">>
    /\ ~can_process("DocumentProcessor", file_path, pypdf)

\* A file named in upper case has gone to the PDF extractor.
C15_Witness ==
  /\ dpc = "extract_text"
  /\ processor = "PDFProcessor"
  /\ suffix(basename(file_path)) = <<".", "P", "D", "F">>

\* ----------------------------------------------------------------- C19
\* The concatenation of a sequence of sequences.
RECURSIVE ConcatAll(_)
ConcatAll(seqs) == IF seqs = <<>> THEN <<>> ELSE Head(seqs) \o ConcatAll(Tail(seqs))

\* The step from a container to its i-th child: a mapping key or an array
\* index (from 0), and the child.
StepTo(v, i) ==
  IF v.t = "dict" THEN [key |-> TRUE, name |-> v.items[i][1], index |-> 0]
  ELSE [key |-> FALSE, name |-> <<>>, index |-> i - 1]

ChildOf(v, i) == IF v.t = "dict" THEN v.items[i][2] ELSE v.items[i]

\* The leaves of a JSON value, depth first, each with the steps leading to it.
RECURSIVE Leaves(_, _)
Leaves(v, path) ==
  IF v.t = "leaf" THEN <<[path |-> path, s |-> v.s]>>
  ELSE ConcatAll([i \in 1..Len(v.items) |->
                    Leaves(ChildOf(v, i), Append(path, StepTo(v, i)))])

\* "key: " for a mapping key, "[i] " for an array index
RenderStep(step) ==
  IF step.key THEN step.name \o <<":", " ">>
  ELSE <<"[", ToString(step.index), "]", " ">>

\* The entry of a leaf: its path prefix, then its value
Render(leaf) ==
  ConcatAll([j \in 1..Len(leaf.path) |-> RenderStep(leaf.path[j])]) \o leaf.s

\* The number of lines of a text
LineCount(t) ==
  IF t = <<>> THEN 0
  ELSE 1 + Cardinality({j \in 1..Len(t) : t[j] = "\n"})

\* A leaf whose entry holds a line break of its own.
HasLineBreak(leaf) == \E j \in 1..Len(Render(leaf)) : Render(leaf)[j] = "\n"

\* extract_text of the JSON extractor has run on a file that parses.
JsonExtracted ==
  /\ opened # <<>>
  /\ processor = "JSONProcessor"
  /\ fs_entry.body.is_json

\* a: b: 1 / c: [0] 2 / c: [1] 3
ExampleLines ==
  <<"a", ":", " ", "b", ":", " ", "1", "\n",
    "c", ":", " ", "[", "0", "]", " ", "2", "\n",
    "c", ":", " ", "[", "1", "]", " ", "3">>

\* C19 as stated: the text is the entries of the leaves, depth first, and has
\* exactly one line per leaf.
C19_Original ==
  JsonExtracted =>
    LET leaves == Leaves(fs_entry.body.json, <<>>) IN
    /\ extracted_text = join_lines([k \in 1..Len(leaves) |-> Render(leaves[k])])
    /\ LineCount(extracted_text) = Len(leaves)

\* C19, corrected: the text is the entries of the leaves -- path prefix, then
\* value -- in depth-first order, joined by line breaks; empty containers give
\* no entry; there is one line per leaf when no key or value holds a line
\* break of its own; the example document gives its three lines.
C19_JsonLines ==
  JsonExtracted =>
    LET leaves == Leaves(fs_entry.body.json, <<>>) IN
    /\ extracted_text = join_lines([k \in 1..Len(leaves) |-> Render(leaves[k])])
    /\ (\A k \in 1..Len(leaves) : ~HasLineBreak(leaves[k])) =>
         LineCount(extracted_text) = Len(leaves)
    /\ fs_entry.body.json = ExampleJson => extracted_text = ExampleLines

\* The example document has been extracted and chunked.
C19_Witness ==
  /\ dpc = "chunked"
  /\ JsonExtracted
  /\ fs_entry.body.json = ExampleJson
  /\ doc_result.text = ExampleLines

\* ----------------------------------------------------------------- C14
\* No extractor matches the upload's temporary file.
Unmatched(file, n) == get_processor(tmp_path(file.filename, n), pypdf) = "none"

\* The insert calls that carry chunks of a file of that name.
CallsFor(filename) ==
  {k \in 1..Len(sink) :
     \E j \in 1..Len(sink[k].chunks) :
       sink[k].chunks[j].metadata.file_name = filename}

\* C14: an upload no extractor matches is read as UTF-8 text, and what
\* process_document returns for it has processing_method "direct_file_read"
\* and processor "none"; when it does not decode, process_document returns
\* no text and success = false, the upload is counted as failed with the
\* error of line 164, and no insert call carries a chunk of it.
C14_PlainTextFallback ==
  doc_processor = "real" =>
    \A i \in 1..Len(files) :
      LET file == files[i]
          extraction == extraction_of(file, i)
      IN Unmatched(file, i) =>
           /\ extraction.success =>
                /\ file.body.utf8
                /\ extraction.text = file.body.raw
                /\ extraction.metadata.processing_method = <<"direct_file_read">>
                /\ extraction.metadata.processor = <<"none">>
           /\ ~file.body.utf8 =>
                /\ extraction = Rejected
                /\ CallsFor(file.filename) = {}
                /\ (i <= Counted /\ file.size <= max_document_size) =>
                     /\ \E k \in 1..Len(stats.errors) :
                          stats.errors[k] = extract_error_msg(file.filename)
                     /\ stats.failed_files >=
                          Cardinality({j \in 1..Counted : ~files[j].body.utf8
                                         /\ Unmatched(files[j], j)})

\* A finished request with a file that does not decode, counted as failed,
\* next to a plain-text file that was stored.
C14_Witness ==
  /\ pc = "done"
  /\ doc_processor = "real"
  /\ \E i \in 1..Len(files) :
       /\ Unmatched(files[i], i) /\ ~files[i].body.utf8
       /\ extract_error_msg(files[i].filename) \in Range(stats.errors)
  /\ \E i \in 1..Len(files) :
       /\ Unmatched(files[i], i) /\ files[i].body.utf8
       /\ CallsFor(files[i].filename) # {}
  /\ response.failed_files > 0 /\ response.processed_files > 0

\* ----------------------------------------------------------------- C20
\* The request carries the admin key, the application has a client and
\* ENABLE_RAG reads "true" (in any case: line 89 lower-cases it).
Authorized ==
  /\ authorization = "valid"
  /\ llama_client
  /\ lower(getenv(enable_rag, <<"f", "a", "l", "s", "e">>)) = <<"t", "r", "u", "e">>

\* The handler has touched an upload or the sink.
Touched ==
  \/ pc \in {"loop", "copy", "process", "insert", "cleanup", "done"}
  \/ stats # [processed_files |-> 0, failed_files |-> 0, errors |-> <<>>]
  \/ sink # <<>>
  \/ tmp_files # {}
  \/ batch_chunks # <<>>

\* C20: no upload is touched and nothing is inserted unless the request is
\* authorized; the first check that fails decides the answer: no bearer
\* credentials 403, another token 401 "Invalid admin API key", no client 500
\* "LlamaStack client not available", RAG not enabled 400 "RAG is not
\* enabled...".
C20_Gatekeeping ==
  /\ Touched => Authorized
  /\ pc = "rejected" =>
       /\ ~Authorized
       /\ ~Touched
       /\ response = NoResponse
       /\ http_error.status_code =
            (IF authorization \in {"missing", "other_scheme"} THEN 403
             ELSE IF authorization = "wrong" THEN 401
             ELSE IF ~llama_client THEN 500
             ELSE 400)
       /\ http_error.status_code = 401 =>
            http_error.detail = <<"Invalid admin API key">>
       /\ http_error.status_code = 500 =>
            http_error.detail = <<"LlamaStack client not available">>
       /\ http_error.status_code = 400 =>
            Head(http_error.detail) = <<"RAG is not enabled">>[1]
  /\ (pc \notin {"auth", "client", "rag"} /\ ~Authorized) => pc = "rejected"
  /\ pc # "rejected" => http_error = NoError

\* A request with the admin key and a client, refused because RAG is off.
C20_Witness ==
  /\ pc = "rejected"
  /\ authorization = "valid"
  /\ llama_client
  /\ http_error.status_code = 400
  /\ Len(files) > 1

\* ------------------------------------------------ score vocabulary
\* float(score) succeeds.
Convertible == to_float(score).raised = "none"

\* The score is a finite number, or a string that reads as one.
FiniteNumeric == Convertible /\ to_float(score).f.cls = "fin"

\* The float the score stands for, when it is convertible.
ScoreValue == to_float(score).f

\* The call returned a float equal to n/d.
ReturnsFloat(n, d) ==
  /\ corrected_score.raised = "none"
  /\ corrected_score.value.type = "float"
  /\ float_eq(corrected_score.value.f, Fin(n, d))

\* ----------------------------------------------------------------- C16
\* C16: the call returns for every input, and an input that float() does
\* not convert is returned as it came.
C16_NeverRaises ==
  spc = "returned" =>
    /\ corrected_score.raised = "none"
    /\ ~Convertible => corrected_score.value = score

RECURSIVE IsSubsequence(_, _)
IsSubsequence(a, b) ==
  IF a = <<>> THEN TRUE
  ELSE IF b = <<>> THEN FALSE
  ELSE IF Head(a) = Head(b) THEN IsSubsequence(Tail(a), Tail(b))
  ELSE IsSubsequence(a, Tail(b))

\* The words of the chunks, taken in order.
ChunkWords(chunk_list) ==
  ConcatAll([i \in 1..Len(chunk_list) |-> split(chunk_list[i])])

\* C30: for every text, chunk_size and overlap (overlap >= chunk_size
\* included) the call returns -- the value is defined for every input tried --
\* every returned chunk is non-empty and has no whitespace at either end, and
\* the words of the text occur in order among the words of the chunks.
C30_NoContentLost ==
  /\ cpc = "ready" => Len(chunk_text(text, chunk_size, chunk_overlap)) \in Nat
  /\ cpc = "returned" =>
       /\ \A i \in 1..Len(final_chunks) :
            /\ final_chunks[i] # <<>>
            /\ strip(final_chunks[i]) = final_chunks[i]
       /\ IsSubsequence(split(Normalized(text)), ChunkWords(final_chunks))

\* An overlap of at least chunk_size that repeated words across chunks.
C30_Witness ==
  /\ cpc = "returned"
  /\ chunk_overlap >= chunk_size
  /\ Len(final_chunks) > 1
  /\ Len(ChunkWords(final_chunks)) > Len(split(text))

\* ----------------------------------------------------------------- C26
\* The text of a message piece by piece: it begins with `head`.
StartsWith(message, head) == message # <<>> /\ Head(message) = head

\* C26: in the response, success says that a file was processed, and the
\* message is the full-success one exactly when every upload was processed,
\* the partial one exactly when some but not all were, the failure one
\* exactly when none was.
C26_ResponseMessage ==
  pc = "done" =>
    /\ response.success <=> response.processed_files >= 1
    /\ StartsWith(response.message, "Successfully ingested ") <=>
         response.processed_files = Len(files)
    /\ StartsWith(response.message, "Partially successful: ") <=>
         (0 < response.processed_files /\ response.processed_files < Len(files))
    /\ StartsWith(response.message, "Failed to ingest any documents. ") <=>
         response.processed_files = 0
    /\ response.processed_files = stats.processed_files
    /\ response.processed_files = Cardinality({k \in 1..Len(sink) : ~sink[k].raised})

\* A partially successful response.
C26_Witness ==
  /\ pc = "done"
  /\ StartsWith(response.message, "Partially successful: ")
  /\ response.success
  /\ response.failed_files > 0

\* ----------------------------------------------------------------- C28
\* C28: after any number of files has been handled, processed_files +
\* failed_files is that number and errors has one entry per failed file; the
\* response accounts for every uploaded file.
C28_CountedOnce ==
  /\ pc \in {"loop", "copy", "process", "insert", "cleanup", "done"} =>
       /\ stats.processed_files + stats.failed_files = Counted
       /\ Len(stats.errors) = stats.failed_files
  /\ pc = "done" =>
       /\ response.processed_files + response.failed_files = Len(files)
       /\ Len(response.errors) = response.failed_files

\* Between two files, with one processed and one failed behind.
C28_Witness ==
  /\ pc = "loop"
  /\ idx = 3
  /\ idx <= Len(files)
  /\ stats.processed_files = 1
  /\ stats.failed_files = 1

\* ----------------------------------------------------------------- C29
\* The temporary files made for the uploads handled so far.
CreatedTempFiles ==
  {tmp_path(files[k].filename, k) :
     k \in {j \in 1..Len(files) :
              j < idx /\ ~(files[j].size # 0 /\ files[j].size > max_document_size)}}

\* C29: when the handler moves on to the next file, and when it answers,
\* unlink has been called on every temporary file made so far; no temporary
\* file is left once the request is answered.
C29_TempFilesDeleted ==
  /\ pc \in {"loop", "done"} => CreatedTempFiles \subseteq unlink_calls
  /\ pc = "done" => tmp_files = {}

\* The same without the copy failure and the unlink failure: on the three
\* paths through the inner try block the temporary file is gone.
C29_InnerPaths ==
  pc \in {"loop", "done"} =>
    \A k \in 1..Len(files) :
      (k < idx /\ files[k].io \in {"ok", "sink_raises"}) =>
        tmp_path(files[k].filename, k) \notin tmp_files

\* ------------------------------------------------------------ C21, C23
\* The entries the validation loop has been through.
Validated == {k \in 1..Len(directory.all_files) : k < all_idx}

EntryAt(k) == directory.all_files[k]

\* A regular file whose extension is not in supported_formats.
Unsupported(entry) ==
  entry.is_file /\ ~is_supported_format(entry.path, supported_formats)

\* The file passes the path and size validations.
PassesValidation(entry) ==
  /\ ~Contains(entry.path, <<".", ".">>)
  /\ entry.exists
  /\ entry.stat = "ok"
  /\ entry.size <= max_document_size

\* The regular files among the validated ones that validation rejects.
ValidationRejects ==
  {k \in Validated : EntryAt(k).is_file /\ ~PassesValidation(EntryAt(k))}

SentPaths == {api_log[k].path : k \in 1..Len(api_log)}

\* Some error of the list names the path.
Names(errors, path) == \E i \in 1..Len(errors) : Contains(errors[i], path)

\* Every error list there is at the moment.
ErrorLists ==
  {all_errors}
  \cup (IF "errors" \in DOMAIN dir_stats THEN {dir_stats.errors} ELSE {})
  \cup (IF "errors" \in DOMAIN dir_result THEN {dir_result.errors} ELSE {})

\* The file has left no trace: not queued, not sent, named by no error.
SkippedSoftly(entry) ==
  /\ entry.path \notin Range(valid_files)
  /\ entry.path \notin SentPaths
  /\ \A errors \in ErrorLists : ~Names(errors, entry.path)

\* C21 as stated: a file of an unsupported format is skipped softly whatever
\* its size or path, and failed_files counts files of supported formats only.
C21_Original ==
  (directory.exists /\ dir_pc \in {"validate", "send", "returned"}) =>
    /\ \A k \in Validated : Unsupported(EntryAt(k)) => SkippedSoftly(EntryAt(k))
    /\ dir_stats.failed_files =
         Cardinality({k \in ValidationRejects : ~Unsupported(EntryAt(k))})

\* C21: a file of an unsupported format that passes the path and size
\* validations is skipped softly -- never queued, never sent to the admin
\* API, named by no error, not counted in failed_files; the path and size
\* validations come first, and a file of an unsupported format that fails
\* one of them is counted as failed like any other, and is not sent either.
C21_SoftSkip ==
  (directory.exists /\ dir_pc \in {"validate", "send", "returned"}) =>
    /\ \A k \in Validated :
         Unsupported(EntryAt(k)) =>
           /\ EntryAt(k).path \notin Range(valid_files)
           /\ EntryAt(k).path \notin SentPaths
           /\ PassesValidation(EntryAt(k)) => SkippedSoftly(EntryAt(k))
    /\ dir_stats.failed_files = Cardinality(ValidationRejects)
    /\ Len(dir_stats.errors) = dir_stats.failed_files

\* A run over a directory holding a small file of an unsupported format and a
\* document that was ingested: nothing failed.
C21_Witness ==
  /\ dir_pc = "returned"
  /\ \E k \in Validated :
       Unsupported(EntryAt(k)) /\ PassesValidation(EntryAt(k))
  /\ dir_result.processed_files = 1
  /\ dir_result.failed_files = 0
  /\ dir_result.errors = <<>>

RECURSIVE SumOf(_, _)
SumOf(log, key) ==
  IF log = <<>> THEN 0 ELSE Head(log).result[key] + SumOf(Tail(log), key)

\* The errors the admin API reported, in the order of the calls.
ApiErrors == ConcatAll([k \in 1..Len(api_log) |-> api_log[k].result.errors])

\* The rejected files in the order of the listing.
RECURSIVE RejectedPaths(_)
RejectedPaths(k) ==
  IF k > Len(directory.all_files) THEN <<>>
  ELSE (IF k \in ValidationRejects THEN <<EntryAt(k).path>> ELSE <<>>)
       \o RejectedPaths(k + 1)

\* No file of the listing is fit to be sent.
NoValidFile ==
  \A k \in 1..Len(directory.all_files) :
    ~(EntryAt(k).is_file /\ PassesValidation(EntryAt(k))
      /\ ~Unsupported(EntryAt(k)))

\* C23: the result of process_directory: failed_files is the number of
\* files validation rejected plus the failures the admin API reported; errors
\* is the validation errors, one per rejected file in the order of the
\* listing, followed by the API errors in the order of the calls; success
\* says that a file was processed; a missing directory gives "Directory not
\* found", a directory without a valid file "No valid files found to
\* process" with no file processed, and no failure when it is empty.
C23_DirectoryResult ==
  dir_pc = "returned" =>
    /\ dir_result.success <=> dir_result.processed_files >= 1
    /\ IF ~directory.exists
       THEN /\ ~dir_result.success
            /\ dir_result.message = <<"Directory not found">>
       ELSE /\ dir_result.processed_files = SumOf(api_log, "processed_files")
            /\ dir_result.failed_files =
                 Cardinality(ValidationRejects) + SumOf(api_log, "failed_files")
            /\ \E validation_errors \in {SubSeq(dir_result.errors, 1,
                                                Len(RejectedPaths(1)))} :
                 /\ dir_result.errors = validation_errors \o ApiErrors
                 /\ Len(validation_errors) = Len(RejectedPaths(1))
                 /\ \A i \in 1..Len(validation_errors) :
                      Contains(validation_errors[i], RejectedPaths(1)[i])
            /\ NoValidFile =>
                 /\ ~dir_result.success
                 /\ dir_result.message = <<"No valid files found to process">>
                 /\ dir_result.processed_files = 0
                 /\ api_log = <<>>
            /\ directory.all_files = <<>> => dir_result.failed_files = 0

\* A run with a file rejected by validation, a failure reported by the admin
\* API and a document ingested.
C23_Witness ==
  /\ dir_pc = "returned"
  /\ Cardinality(ValidationRejects) = 1
  /\ SumOf(api_log, "failed_files") = 1
  /\ dir_result.processed_files = 1
  /\ dir_result.success
  /\ Len(dir_result.errors) = 2

\* ----------------------------------------------------------------- C24
\* The chunks reported so far.
Reported == 1..Len(chunk_metadata_list)

\* C24: the score correction is applied to a chunk if and only if the
\* vector database is a pgvector one; the scores of another backend are
\* reported as they came; a chunk without a score is reported with "N/A".
C24_ScoreRouting ==
  query_pc \in {"loop", "collected"} =>
    \A k \in Reported :
      LET raw == score_at(results, k - 1) IN
      /\ vector_provider = "pgvector" <=> k \in Range(correction_calls)
      /\ vector_provider = "pgvector" =>
           chunk_metadata_list[k].score = correct_pgvector_score(raw).value
      /\ vector_provider # "pgvector" => chunk_metadata_list[k].score = raw
      /\ k > Len(results.scores) =>
           chunk_metadata_list[k].score = PyStr(<<"N", "/", "A">>)

\* What does hold: the correction is applied exactly when VECTOR_DB_PROVIDER
\* reads "pgvector" in any case, which implies a pgvector database.
C24_ByVariable ==
  query_pc \in {"loop", "collected"} =>
    \A k \in Reported :
      LET raw == score_at(results, k - 1)
          named == VECTOR_DB_PROVIDER.set
                   /\ lower(VECTOR_DB_PROVIDER.value)
                        = <<"p", "g", "v", "e", "c", "t", "o", "r">>
      IN /\ named <=> k \in Range(correction_calls)
         /\ named => vector_provider = "pgvector"
         /\ named => chunk_metadata_list[k].score = correct_pgvector_score(raw).value
         /\ ~named => chunk_metadata_list[k].score = raw
         /\ k > Len(results.scores) =>
              chunk_metadata_list[k].score = PyStr(<<"N", "/", "A">>)

\* ----------------------------------------------------------------- C25
\* The agent output is iterated.
Iterated == agent_output.kind \in {"coroutine", "async_generator", "generator"}

\* The place where getting or iterating the agent output raises: 0 at the
\* await, the position of the chunk in the iteration, -1 when nothing raises.
RaisesAt ==
  IF agent_output.kind = "coroutine_raises" THEN 0
  ELSE IF Iterated /\ \E i \in 1..Len(agent_output.items) :
                        agent_output.items[i].kind = "raise"
  THEN CHOOSE i \in 1..Len(agent_output.items) :
         /\ agent_output.items[i].kind = "raise"
         /\ \A j \in 1..(i - 1) : agent_output.items[j].kind # "raise"
  ELSE -1

\* The token events the chunks before position n give.
RECURSIVE TokensBefore(_)
TokensBefore(n) ==
  IF n <= 1 THEN <<>>
  ELSE TokensBefore(n - 1)
       \o (IF agent_output.items[n - 1].kind \in {"delta", "turn"}
              /\ agent_output.items[n - 1].content # <<>>
           THEN <<[type |-> "token", content |-> agent_output.items[n - 1].content]>>
           ELSE <<>>)

AllTokens ==
  IF Iterated THEN TokensBefore(Len(agent_output.items) + 1) ELSE <<>>

EventTypes(yielded) == [i \in 1..Len(yielded) |-> yielded[i].type]

\* C25: the stream holds at most one "[DONE]" and nothing after it, and a
\* finished stream ends with it. Without an exception it is the token
\* events, then one metadata event exactly when the query retrieved RAG
\* chunks, then "[DONE]"; when getting or iterating the agent output raises
\* it is the token events yielded until then, one error event and "[DONE]",
\* without a metadata event.
C25_StreamShape ==
  /\ \A i \in 1..Len(stream) : stream[i].type = "[DONE]" => i = Len(stream)
  /\ sse_pc = "closed" <=> (stream # <<>> /\ stream[Len(stream)].type = "[DONE]")
  /\ sse_pc = "closed" =>
       IF RaisesAt = -1
       THEN /\ SubSeq(stream, 1, Len(AllTokens)) = AllTokens
            /\ EventTypes(SubSeq(stream, Len(AllTokens) + 1, Len(stream))) =
                 (IF chunk_metadata_list # <<>> THEN <<"metadata">> ELSE <<>>)
                 \o <<"[DONE]">>
       ELSE /\ SubSeq(stream, 1, Len(TokensBefore(RaisesAt))) = TokensBefore(RaisesAt)
            /\ EventTypes(SubSeq(stream, Len(TokensBefore(RaisesAt)) + 1,
                                 Len(stream))) = <<"error", "[DONE]">>

\* A finished stream of two tokens, the metadata event and "[DONE]".
C25_Witness ==
  /\ sse_pc = "closed"
  /\ EventTypes(stream) = <<"token", "token", "metadata", "[DONE]">>

\* A stream that finished on the error path after a token, RAG chunks
\* having been retrieved.
C25_ErrorWitness ==
  /\ sse_pc = "closed"
  /\ chunk_metadata_list # <<>>
  /\ EventTypes(stream) = <<"token", "error", "[DONE]">>

\* ----------------------------------------------------------------- C27
\* The position of the first event e, 0 when there is none.
FirstIndex(e) ==
  IF \E i \in 1..Len(events) : events[i] = e
  THEN CHOOSE i \in 1..Len(events) :
         events[i] = e /\ \A j \in 1..(i - 1) : events[j] # e
  ELSE 0

Happened(e) == FirstIndex(e) > 0

\* C27: Boann is started only after LlamaStack was started and answered the
\* health check with 200; when the health check times out or a signal arrives
\* during the wait, Boann is never started and LlamaStack has been terminated
\* when the script exits; Boann is terminated before LlamaStack.
C27_StartupOrder ==
  /\ Happened("start_boann") =>
       /\ Happened("start_llamastack")
       /\ Happened("healthy")
       /\ FirstIndex("start_llamastack") < FirstIndex("healthy")
       /\ FirstIndex("healthy") < FirstIndex("start_boann")
  /\ (Happened("health_timeout") \/ Happened("signal_while_waiting")) =>
       /\ ~Happened("start_boann")
       /\ start_pc = "exited" => Happened("terminate_llamastack")
  /\ (Happened("terminate_boann") /\ Happened("terminate_llamastack")) =>
       FirstIndex("terminate_boann") < FirstIndex("terminate_llamastack")

\* What holds without a signal: the order of the starts, the time-out, and
\* the order of the terminations.
C27_WithoutSignal ==
  signals = 0 =>
    /\ Happened("start_boann") =>
         /\ Happened("healthy")
         /\ FirstIndex("start_llamastack") < FirstIndex("healthy")
         /\ FirstIndex("healthy") < FirstIndex("start_boann")
    /\ Happened("health_timeout") =>
         /\ ~Happened("start_boann")
         /\ start_pc = "exited" => Happened("terminate_llamastack")
    /\ (Happened("terminate_boann") /\ Happened("terminate_llamastack")) =>
         FirstIndex("terminate_boann") < FirstIndex("terminate_llamastack")

\* ------------------------------------------------------------------ C22
\* What one call of the handler, served alone, has counted and sent to the
\* sink once the first n of its files are done.
RECURSIVE run_alone(_, _)
run_alone(fs, n) ==
  IF n = 0
  THEN [stats |-> [processed_files |-> 0, failed_files |-> 0, errors |-> <<>>],
        calls |-> <<>>]
  ELSE LET before == run_alone(fs, n - 1)
           file == fs[n]
           extraction == extraction_of(file, n)
           batch == build_batch(chunks_of(file, n), extraction.metadata,
                                file.filename)
       IN IF file.size # 0 /\ file.size > max_document_size
          THEN [before EXCEPT !.stats = record_failure(@,
                  size_error_msg(file.filename, max_document_size))]
          ELSE IF file.io = "copy_fails"
          THEN [before EXCEPT !.stats = record_failure(@,
                  file_error_msg(file.filename, <<"copy failed">>))]
          ELSE IF ~extraction.success
          THEN [before EXCEPT !.stats = record_failure(@,
                  extract_error_msg(file.filename))]
          ELSE [stats |-> IF file.io = "sink_raises"
                          THEN record_failure(before.stats,
                                 processing_error_msg(file.filename,
                                                      <<"insert failed">>))
                          ELSE [before.stats EXCEPT !.processed_files = @ + 1],
                calls |-> Append(before.calls, batch)]

\* The chunk batches the sink received from the caller r, in order.
BatchesOf(r) ==
  LET own == SelectSeq(vector_io, LAMBDA call : call.caller = r)
  IN [k \in 1..Len(own) |-> own[k].chunks]

\* The number of files of a call whose outcome is in its stats.
CountedOf(rq) == IF rq.pc = "cleanup" THEN rq.idx ELSE rq.idx - 1

\* The sequential handler does what run_alone says.
C22_AloneIsTheHandler ==
  pc \in {"loop", "copy", "process", "insert", "cleanup", "done"} =>
    /\ stats = run_alone(files, Counted).stats
    /\ [k \in 1..Len(sink) |-> sink[k].chunks] = run_alone(files, Counted).calls

\* C22: two ingestion requests interleaved step by step share no mutable
\* state: each one's chunk batches, processed and failed counters, error list
\* and response are those it produces when served alone, and the chunks of a
\* batch are chunk_text of the document's text whatever the other call does.
C22_NoSharedState ==
  \A r \in DOMAIN requests :
    LET rq == requests[r]
        alone == run_alone(rq.files, CountedOf(rq))
    IN /\ rq.stats = alone.stats
       /\ BatchesOf(r) = alone.calls
       /\ rq.pc = "insert" =>
            [j \in 1..Len(rq.batch_chunks) |-> rq.batch_chunks[j].content]
              = chunk_text(extraction_of(rq.files[rq.idx], rq.idx).text,
                           chunk_size, chunk_overlap)
       /\ rq.pc = "done" =>
            /\ CountedOf(rq) = Len(rq.files)
            /\ rq.response = ingest_response(alone.stats, Len(rq.files))

\* Both requests are answered, the sink took a batch of the second between
\* two of the first, and both uploaded a file of the same name.
C22_Witness ==
  /\ DOMAIN requests = Callers
  /\ \A r \in Callers : requests[r].pc = "done"
  /\ \E i, j, k \in 1..Len(vector_io) :
       /\ i < j /\ j < k
       /\ vector_io[i].caller = 1
       /\ vector_io[j].caller = 2
       /\ vector_io[k].caller = 1
  /\ \E a \in 1..Len(requests[1].files), b \in 1..Len(requests[2].files) :
       /\ requests[1].files[a].filename = requests[2].files[b].filename
       /\ requests[1].files[a].body # requests[2].files[b].body
  /\ requests[1].stats.failed_files > 0

====
